---- MODULE Spec2Model ----
(***************************************************************************)
(* Model of the image/mask preparation tools of the repository:            *)
(*   tools/process_allinone.py  expand + crop + validate in one pass       *)
(*   tools/expand.py            expansion of an original/mask pair         *)
(*   tools/expand_good.py       expansion of an original without mask      *)
(*   tools/crop.py              random square crops of a pair              *)
(*   tools/crop_good.py         random square crops without mask           *)
(* Images are explicit pixel grids at a reduced scale: the dimensions and  *)
(* the target sizes range over 1..MaxDim, 1..MaxL and 1..MaxCrop.  The     *)
(* fixed target l of expand.py (512) and expand_good.py (256) is the       *)
(* variable expansion_target_size, so that every order of h, w and l is    *)
(* met.  Thresholds are fractions t / ThresholdDen; crop sizes are at      *)
(* least 1 and every cv2.imwrite succeeds.                                 *)
(***************************************************************************)
EXTENDS Integers, Sequences, FiniteSets, TLC

(* ------------------------------ bounds --------------------------------- *)
MaxDim == 3
MaxL == 3
MaxCrop == 2
ThresholdDen == 2
NumPairs == 2
NumAug == 1
NumCrops == 2
MaxLabelArea == 2
MaxDirChanges == 2
MaxFiles == 3

(* ------------------------------ pixels --------------------------------- *)
Gray == <<127, 127, 127>>
White == <<255, 255, 255>>
Black == <<0, 0, 0>>
OffWhite == <<255, 255, 0>>

Min(a, b) == IF a <= b THEN a ELSE b
Max(a, b) == IF a >= b THEN a ELSE b

\* The 0-based (row, column) positions of an h x w array.
Pixels(h, w) == (0..(h - 1)) \X (0..(w - 1))

\* An H x W x 3 array: shape (h, w) and one pixel per position.
Image(h, w, px) == [h |-> h, w |-> w, px |-> px]

NoImage == [h |-> 0, w |-> 0, px |-> <<>>]

\* Variant: the canvas is filled with the defect colour.
Full_white(h, w) == Image(h, w, [rc \in Pixels(h, w) |-> White])

\* np.full((h, w, 3), (127, 127, 127))
Full(h, w) == Image(h, w, [rc \in Pixels(h, w) |-> Gray])

\* Variant: the block is written at the origin of the canvas.
Paste_atorigin(canvas, top, left, img) ==
    Image(canvas.h, canvas.w,
          [rc \in Pixels(canvas.h, canvas.w) |->
             LET r == rc[1]
                 c == rc[2]
             IN  IF r < img.h /\ c < img.w
                 THEN img.px[<<r, c>>]
                 ELSE canvas.px[<<r, c>>]])

\* canvas[top:top+img.h, left:left+img.w] = img
Paste(canvas, top, left, img) ==
    Image(canvas.h, canvas.w,
          [rc \in Pixels(canvas.h, canvas.w) |->
             LET r == rc[1]
                 c == rc[2]
             IN  IF /\ top <= r /\ r < top + img.h
                    /\ left <= c /\ c < left + img.w
                 THEN img.px[<<r - top, c - left>>]
                 ELSE canvas.px[<<r, c>>]])

\* img[y0:y1, x0:x1] for non-negative bounds: numpy clips a slice to the array.
Slice(img, y0, y1, x0, x1) ==
    LET ys == Min(y0, img.h)
        ye == Max(ys, Min(y1, img.h))
        xs == Min(x0, img.w)
        xe == Max(xs, Min(x1, img.w))
    IN  Image(ye - ys, xe - xs,
          [rc \in Pixels(ye - ys, xe - xs) |->
             LET r == rc[1]
                 c == rc[2]
             IN  img.px[<<ys + r, xs + c>>]])

\* Variant: np.any in place of np.all.
IsDefectPixel_any(p) == \E ch \in 1..3 : p[ch] = White[ch]

\* np.sum(np.all(mask == [255, 255, 255], axis=-1))
IsDefectPixel(p) == \A ch \in 1..3 : p[ch] = White[ch]

DefectPixelsCount(mask) ==
    Cardinality({p \in DOMAIN mask.px : IsDefectPixel(mask.px[p])})

\* defect_pixels_count / total_pixels if total_pixels > 0 else 0, as a fraction
DefectPercentage(count, total) ==
    IF total > 0 THEN <<count, total>> ELSE <<0, 1>>

\* Variant: the comparison is strict.
Accept_strict(dp, t) == dp[1] * ThresholdDen > t * dp[2]

\* Variant: the comparison is reversed.
Accept_reversed(dp, t) == dp[1] * ThresholdDen <= t * dp[2]

\* defect_percentage >= defect_threshold, the threshold being t / ThresholdDen
Accept(dp, t) == dp[1] * ThresholdDen >= t * dp[2]

(* ------------------------------ inputs --------------------------------- *)
\* The original of a pair: every pixel carries its own source coordinate.
OriginalOf(h, w) ==
    Image(h, w, [rc \in Pixels(h, w) |-> <<rc[1] + 1, rc[2] + 1, 200>>])

MaskKinds == {"clean", "corner", "near"}

MaskOf(kind, h, w) ==
    Image(h, w,
          [rc \in Pixels(h, w) |->
             LET r == rc[1]
                 c == rc[2]
             IN  CASE kind = "clean" -> Black
                   [] kind = "corner" ->
                        IF r = 0 /\ c = 0 THEN White ELSE Black
                   [] OTHER ->
                        IF r = h - 1 /\ c = w - 1 THEN OffWhite ELSE White])

Dims == (1..MaxDim) \X (1..MaxDim)

Masks(h, w) == {MaskOf(k, h, w) : k \in MaskKinds}

Exts == <<".jpg", ".webp">>
SupportedExts == {".png", ".jpg", ".jpeg", ".bmp", ".tiff"}
Stems == <<"1", "2", "3", "4">>

AlphaStems == <<"a", "b", "c", "d">>

\* str.isdigit() on the names the listings use
IsDigit(name) == \E k \in DOMAIN Stems : name = Stems[k]

\* Directory listings of originals: distinct names, the extensions alternate
\* between one the tools keep and one they replace by ".png".
Listings == {[k \in 1..NumPairs |->
                 [name |-> Stems[k], ext |-> Exts[((k + s) % 2) + 1]]] :
               s \in 0..1}

\* Listings of the expansion tools, which filter on digit names.
MixedListings ==
    {[k \in 1..NumPairs |->
         [name |-> IF k \in a THEN AlphaStems[k] ELSE Stems[k], ext |-> e]] :
       a \in SUBSET (1..NumPairs), e \in {Exts[1], Exts[2]}}

\* crop_size_ratio of crop_image as a fraction; batch_crop_images passes 1.0
Ratios == {<<1, 1>>, <<3, 2>>}


Thresholds == 0..ThresholdDen

\* "{base}{tag}{num}{suffix}{ext}" ; num = 0 stands for an absent number
FileName(base, tag, num, suffix, ext) ==
    [base |-> base, tag |-> tag, num |-> num, suffix |-> suffix, ext |-> ext]

\* A directory after a file is written: the name now holds the data of the
\* listing entry src, whatever it held before.
WriteFile(dir, name, src) ==
    [n \in DOMAIN dir \cup {name} |-> IF n = name THEN src ELSE dir[n]]

EmptyDir == [n \in {} |-> 0]

NoAttempt ==
    [start_x |-> -1, start_y |-> -1, cropped_original |-> NoImage,
     cropped_mask |-> NoImage, defect_pixels_count |-> 0, total_pixels |-> 0,
     defect_percentage |-> <<0, 1>>,
     accept_under |-> [t \in Thresholds |-> FALSE]]

NoPadding == [top |-> 0, left |-> 0, h |-> 0, w |-> 0]

(* ------------------------------- state --------------------------------- *)
VARIABLES
    tool,                    \* which script runs
    expansion_target_size,   \* target size of the expansion (l in expand*.py)
    crop_size,               \* side of the square crop
    crop_size_ratio,         \* crop.py, crop_good.py: crop side / shorter side
    defect_threshold,        \* numerator of the threshold over ThresholdDen
    num_augmentations,       \* expansions per pair (num_expansions)
    num_crops,               \* crop attempts per canvas (num_crops_per_aug)
    original_files,          \* the listing captured at the start of the batch
    idx,                     \* number of listing entries already handled
    pc,                      \* position of the run
    original_image, mask_image,
    ext,                     \* output extension of the current pair
    i,                       \* index of the expansion loop of the current pair
    padding,                 \* offsets drawn by the current expansion
    expanded_original, expanded_mask,
    j,                       \* crop attempts made on the current canvas
    attempt,                 \* the latest crop attempt
    writes,                  \* the cv2.imwrite calls of the latest step
    processed_image_count,   \* global counter of process_allinone.py
    valid_crop_counter,      \* per-source counter of crop.py
    out_original_dir, out_mask_dir,   \* the two output roots: name -> source
    log,                     \* the latest diagnostic
    \* mask_and_label.py
    matching_files,          \* the file sets found by find_matching_files
    defect_id,               \* the label id to extract
    label_img, mask_img,     \* the two grids read for the current file set
    processed_mask,          \* result of extract_defect_mask (NoImage: None)
    gray_white_mask,         \* result of convert_to_gray_white
    processed_count, skipped_count, error_count,
    copied_originals_count, original_not_found_count,
    output_dir,              \* processed masks: name -> source
    output_original_image_dir,   \* copied originals: name -> source
    \* the input directory of a batch run, as other programs change it
    input_dir,               \* the files the directory holds now
    initial_dir,             \* the files it held when the listing was taken
    mask_file,               \* the mask name looked up for the latest entry
    processed,               \* listing entries handed to the pair function
    changes,                 \* files added or removed since the start
    unwritable,              \* the output roots cv2.imwrite cannot write to
    \* rename.py
    user_choice,             \* the batch operation that runs
    in_place,                \* norm_source_path == norm_output_path
    args,                    \* the strings handed to the batch function
    source_directory,        \* name -> content, the content being the name
                             \* the file had when the run started
    output_directory,        \* name -> content, when it is another directory
    files_to_process,        \* the listing the loop iterates over
    temp_renames,            \* phase 1 of the in-place sequential rename
    counts                   \* total_files and processed_count

labelling == <<matching_files, defect_id, label_img, mask_img, processed_mask,
               gray_white_mask, processed_count, skipped_count, error_count,
               copied_originals_count, original_not_found_count, output_dir,
               output_original_image_dir>>
directory == <<input_dir, initial_dir, mask_file, processed, changes>>
renaming == <<user_choice, in_place, args, source_directory, output_directory,
              files_to_process, temp_renames, counts>>
other_tools == <<labelling, directory, unwritable, renaming>>

vars == <<tool, expansion_target_size, crop_size, crop_size_ratio,
          defect_threshold, num_augmentations, num_crops, original_files, idx,
          pc, original_image, mask_image, ext, i, padding, expanded_original,
          expanded_mask, j, attempt, writes, processed_image_count,
          valid_crop_counter, out_original_dir, out_mask_dir, log,
          labelling, directory, unwritable, renaming>>

config == <<tool, expansion_target_size, crop_size_ratio, defect_threshold,
            num_augmentations, num_crops, original_files>>
pair == <<original_image, mask_image, ext>>
canvas == <<padding, expanded_original, expanded_mask>>
outputs == <<processed_image_count, out_original_dir, out_mask_dir>>

\* The parameters each script takes; the others keep a fixed value.
InitConfig ==
    \/ /\ tool = "allinone"
       /\ expansion_target_size \in 1..MaxL
       /\ crop_size \in 1..MaxCrop
       /\ crop_size_ratio = <<1, 1>>
       /\ defect_threshold \in Thresholds
       /\ original_files \in Listings
    \/ /\ tool \in {"expand", "expand_good"}
       /\ expansion_target_size \in 1..MaxL
       /\ crop_size = 0
       /\ crop_size_ratio = <<1, 1>>
       /\ defect_threshold = 0
       /\ original_files \in MixedListings
    \/ /\ tool = "crop"
       /\ expansion_target_size = 0
       /\ crop_size = 0
       /\ crop_size_ratio \in Ratios
       /\ defect_threshold \in Thresholds
       /\ original_files \in Listings
    \/ /\ tool = "crop_good"
       /\ expansion_target_size = 0
       /\ crop_size = 0
       /\ crop_size_ratio \in Ratios
       /\ defect_threshold = 0
       /\ original_files \in Listings

\* The state of a run before its first listing entry.
InitRun ==
    /\ idx = 0
    /\ pc = "batch"
    /\ original_image = NoImage
    /\ mask_image = NoImage
    /\ ext = ""
    /\ i = 0
    /\ padding = NoPadding
    /\ expanded_original = NoImage
    /\ expanded_mask = NoImage
    /\ j = 0
    /\ attempt = NoAttempt
    /\ writes = <<>>
    /\ processed_image_count = 0
    /\ valid_crop_counter = 0
    /\ out_original_dir = EmptyDir
    /\ out_mask_dir = EmptyDir
    /\ log = "start"

\* Both output roots can be written to.
Writable == unwritable = {}

\* rename.py is not running.
RenamingIdle ==
    /\ user_choice = ""
    /\ in_place = FALSE
    /\ args = <<>>
    /\ source_directory = EmptyDir
    /\ output_directory = EmptyDir
    /\ files_to_process = <<>>
    /\ temp_renames = <<>>
    /\ counts = <<>>

\* mask_and_label.py is not running.
LabellingIdle ==
    /\ matching_files = <<>>
    /\ defect_id = 0
    /\ label_img = NoImage
    /\ mask_img = NoImage
    /\ processed_mask = NoImage
    /\ gray_white_mask = NoImage
    /\ processed_count = 0
    /\ skipped_count = 0
    /\ error_count = 0
    /\ copied_originals_count = 0
    /\ original_not_found_count = 0
    /\ output_dir = EmptyDir
    /\ output_original_image_dir = EmptyDir

\* The input directory is left alone and not looked at.
DirectoryIdle ==
    /\ input_dir = {}
    /\ initial_dir = {}
    /\ mask_file = ""
    /\ processed = {}
    /\ changes = 0

Init ==
    /\ InitConfig
    /\ num_augmentations = NumAug
    /\ num_crops = NumCrops
    /\ InitRun
    /\ Writable
    /\ RenamingIdle
    /\ LabellingIdle
    /\ DirectoryIdle

\* Variant: a failed entry ends the whole listing.
EndOfPair_abort(msg) ==
    /\ idx' = Len(original_files)
    /\ pc' = "batch"
    /\ original_image' = NoImage
    /\ mask_image' = NoImage
    /\ ext' = ""
    /\ i' = 0
    /\ padding' = NoPadding
    /\ expanded_original' = NoImage
    /\ expanded_mask' = NoImage
    /\ j' = 0
    /\ attempt' = NoAttempt
    /\ writes' = <<>>
    /\ valid_crop_counter' = 0
    /\ log' = msg
    /\ UNCHANGED <<other_tools, config, outputs>>

\* The state left behind when the handling of a listing entry ends.
EndOfPair(msg) ==
    /\ idx' = idx + 1
    /\ pc' = "batch"
    /\ original_image' = NoImage
    /\ mask_image' = NoImage
    /\ ext' = ""
    /\ i' = 0
    /\ padding' = NoPadding
    /\ expanded_original' = NoImage
    /\ expanded_mask' = NoImage
    /\ j' = 0
    /\ attempt' = NoAttempt
    /\ writes' = <<>>
    /\ valid_crop_counter' = 0
    /\ log' = msg
    /\ UNCHANGED <<other_tools, config, outputs>>

InBatch(t) == tool = t /\ pc = "batch" /\ idx < Len(original_files)

CurrentFile == original_files[idx + 1]

\* if ext.lower() not in ['.png', '.jpg', '.jpeg', '.bmp', '.tiff']: ext = '.png'
OutputExt(e) == IF e \in SupportedExts THEN e ELSE ".png"

\* cv2.imwrite(path, image) for the original, then for the mask
Imwrites(orig_name, mask_name, orig, mask) ==
    <<[dir |-> "original", path |-> orig_name, image |-> orig],
      [dir |-> "mask", path |-> mask_name, image |-> mask]>>

(* ----------------------- process_allinone.py --------------------------- *)
\* batch_process_directory: the mask of the entry does not exist
BatchMaskMissing ==
    /\ InBatch("allinone")
    /\ EndOfPair("warn_no_mask")
    /\ UNCHANGED crop_size

\* process_image_pair: cv2.imread returns None for the original or the mask
PairUnreadable ==
    /\ InBatch("allinone")
    /\ EndOfPair("error_read")
    /\ UNCHANGED crop_size

\* process_image_pair: original and mask differ in height or width
PairShapeMismatch ==
    /\ InBatch("allinone")
    /\ EndOfPair("error_shape")
    /\ UNCHANGED crop_size

\* process_image_pair: both images read, shapes equal, extension chosen
PairBegin ==
    /\ InBatch("allinone")
    /\ \E d \in Dims : \E m \in Masks(d[1], d[2]) :
          /\ original_image' = OriginalOf(d[1], d[2])
          /\ mask_image' = m
    /\ ext' = OutputExt(CurrentFile.ext)
    /\ i' = 0
    /\ pc' = "aug"
    /\ log' = "pair"
    /\ UNCHANGED <<other_tools, config, outputs, canvas, crop_size, idx, j,
                   attempt, writes, valid_crop_counter>>

\* Variant: the mask is pasted without the offsets drawn for the original.
Expansions_maskatorigin(orig, mask, L) ==
    LET h == orig.h
        w == orig.w
        padding_h == Max(0, L - h)
        padding_w == Max(0, L - w)
    IN  IF padding_h > 0 \/ padding_w > 0
        THEN {[padding |-> [top |-> padding_top, left |-> padding_left,
                            h |-> padding_h, w |-> padding_w],
               expanded_original |->
                   Paste(Full(h + padding_h, w + padding_w),
                         padding_top, padding_left, orig),
               expanded_mask |->
                   Paste(Full(h + padding_h, w + padding_w), 0, 0, mask)] :
                 padding_top \in 0..padding_h, padding_left \in 0..padding_w}
        ELSE {[padding |-> NoPadding,
               expanded_original |-> orig,
               expanded_mask |-> mask]}

\* Variant: only the shorter axis is padded.
Expansions_shorteronly(orig, mask, L) ==
    LET h == orig.h
        w == orig.w
        padding_h == IF w < h THEN 0 ELSE Max(0, L - h)
        padding_w == IF h < w THEN 0 ELSE Max(0, L - w)
    IN  IF padding_h > 0 \/ padding_w > 0
        THEN {[padding |-> [top |-> padding_top, left |-> padding_left,
                            h |-> padding_h, w |-> padding_w],
               expanded_original |->
                   Paste(Full(h + padding_h, w + padding_w),
                         padding_top, padding_left, orig),
               expanded_mask |->
                   Paste(Full(h + padding_h, w + padding_w),
                         padding_top, padding_left, mask)] :
                 padding_top \in 0..padding_h, padding_left \in 0..padding_w}
        ELSE {[padding |-> NoPadding,
               expanded_original |-> orig,
               expanded_mask |-> mask]}

\* Step 1 of an augmentation: the expanded pairs the random draws can produce
Expansions(orig, mask, L) ==
    LET h == orig.h
        w == orig.w
        padding_h == Max(0, L - h)
        padding_w == Max(0, L - w)
    IN  IF padding_h > 0 \/ padding_w > 0
        THEN {[padding |-> [top |-> padding_top, left |-> padding_left,
                            h |-> padding_h, w |-> padding_w],
               expanded_original |->
                   Paste(Full(h + padding_h, w + padding_w),
                         padding_top, padding_left, orig),
               expanded_mask |->
                   Paste(Full(h + padding_h, w + padding_w),
                         padding_top, padding_left, mask)] :
                 padding_top \in 0..padding_h, padding_left \in 0..padding_w}
        ELSE {[padding |-> NoPadding,
               expanded_original |-> orig,
               expanded_mask |-> mask]}

\* Variant: only the width is compared with crop_size.
Undersized_widthonly(img, size) == size > img.w

\* if crop_size > exp_w or crop_size > exp_h
Undersized(img, size) == size > img.w \/ size > img.h

\* one augmentation whose canvas can hold a crop: expansion, then the crop loop
AugExpand ==
    /\ tool = "allinone" /\ pc = "aug" /\ i < num_augmentations
    /\ \E e \in Expansions(original_image, mask_image, expansion_target_size) :
          /\ ~Undersized(e.expanded_original, crop_size)
          /\ padding' = e.padding
          /\ expanded_original' = e.expanded_original
          /\ expanded_mask' = e.expanded_mask
    /\ j' = 0
    /\ attempt' = NoAttempt
    /\ writes' = <<>>
    /\ pc' = "crop"
    /\ log' = "expanded"
    /\ UNCHANGED <<other_tools, config, outputs, pair, crop_size, idx, i,
                   valid_crop_counter>>

\* one augmentation whose canvas is smaller than crop_size: warning, continue
AugUndersized ==
    /\ tool = "allinone" /\ pc = "aug" /\ i < num_augmentations
    /\ \E e \in Expansions(original_image, mask_image, expansion_target_size) :
          /\ Undersized(e.expanded_original, crop_size)
          /\ padding' = e.padding
          /\ expanded_original' = e.expanded_original
          /\ expanded_mask' = e.expanded_mask
    /\ i' = i + 1
    /\ j' = 0
    /\ attempt' = NoAttempt
    /\ writes' = <<>>
    /\ log' = "warn_undersized"
    /\ UNCHANGED <<other_tools, config, outputs, pair, crop_size, idx, pc,
                   valid_crop_counter>>

\* The candidate drawn at (start_x, start_y) and its measurement.
Candidate(orig, mask, size, start_x, start_y) ==
    LET cropped_original ==
            Slice(orig, start_y, start_y + size, start_x, start_x + size)
        cropped_mask ==
            Slice(mask, start_y, start_y + size, start_x, start_x + size)
        count == DefectPixelsCount(cropped_mask)
        total == size * size
    IN  [start_x |-> start_x, start_y |-> start_y,
         cropped_original |-> cropped_original,
         cropped_mask |-> cropped_mask,
         defect_pixels_count |-> count,
         total_pixels |-> total,
         defect_percentage |-> DefectPercentage(count, total),
         accept_under |->
             [t \in Thresholds |-> Accept(DefectPercentage(count, total), t)]]

\* Variant: the draw ranges one position too far.
Candidates_offbyone(orig, mask, size) ==
    {Candidate(orig, mask, size, start_x, start_y) :
        start_x \in 0..(orig.w - size + 1), start_y \in 0..(orig.h - size)}

\* The candidates random.randint(0, max_x), random.randint(0, max_y) can draw.
Candidates(orig, mask, size) ==
    {Candidate(orig, mask, size, start_x, start_y) :
        start_x \in 0..(orig.w - size), start_y \in 0..(orig.h - size)}

Accepted(cand, t) == Accept(cand.defect_percentage, t)

\* Variant: the name is formed before the counter is incremented.
OutputNames_stale(n, e) ==
    <<FileName("", "", n - 1, "", e), FileName("", "", n - 1, "_mask", e)>>

\* f"{processed_image_count}{ext}" and f"{processed_image_count}_mask{ext}"
OutputNames(n, e) ==
    <<FileName("", "", n, "", e), FileName("", "", n, "_mask", e)>>

\* one crop attempt that meets the threshold: counter, two files, "saved"
CropAccepted ==
    /\ tool = "allinone" /\ pc = "crop" /\ j < num_crops
    /\ \E cand \in Candidates(expanded_original, expanded_mask, crop_size) :
          LET n == processed_image_count + 1
              output_original_name == OutputNames(n, ext)[1]
              output_mask_name == OutputNames(n, ext)[2]
          IN  /\ Accepted(cand, defect_threshold)
              /\ processed_image_count' = n
              /\ attempt' = cand
              /\ writes' = Imwrites(output_original_name, output_mask_name,
                                    cand.cropped_original, cand.cropped_mask)
              /\ out_original_dir' =
                    WriteFile(out_original_dir, output_original_name, idx + 1)
              /\ out_mask_dir' =
                    WriteFile(out_mask_dir, output_mask_name, idx + 1)
    /\ j' = j + 1
    /\ log' = "saved"
    /\ UNCHANGED <<other_tools, config, pair, canvas, crop_size, idx, pc, i,
                   valid_crop_counter>>

\* one crop attempt below the threshold: nothing is written
CropRejected ==
    /\ tool = "allinone" /\ pc = "crop" /\ j < num_crops
    /\ \E cand \in Candidates(expanded_original, expanded_mask, crop_size) :
          /\ ~Accepted(cand, defect_threshold)
          /\ attempt' = cand
    /\ writes' = <<>>
    /\ j' = j + 1
    /\ log' = "rejected"
    /\ UNCHANGED <<other_tools, config, outputs, pair, canvas, crop_size, idx,
                   pc, i, valid_crop_counter>>

\* Variant: the crop loop may stop after any attempt.
AugEnd_early ==
    /\ tool = "allinone" /\ pc = "crop" /\ j >= 1
    /\ i' = i + 1
    /\ pc' = "aug"
    /\ writes' = <<>>
    /\ log' = "aug_done"
    /\ UNCHANGED <<other_tools, config, outputs, pair, canvas, crop_size, idx,
                   j, attempt, valid_crop_counter>>

\* the crop loop of an augmentation is exhausted: next augmentation
AugEnd ==
    /\ tool = "allinone" /\ pc = "crop" /\ j >= num_crops
    /\ i' = i + 1
    /\ pc' = "aug"
    /\ writes' = <<>>
    /\ log' = "aug_done"
    /\ UNCHANGED <<other_tools, config, outputs, pair, canvas, crop_size, idx,
                   j, attempt, valid_crop_counter>>

\* all augmentations of the pair are done: process_image_pair returns
PairEnd ==
    /\ tool = "allinone" /\ pc = "aug" /\ i >= num_augmentations
    /\ EndOfPair("pair_done")
    /\ UNCHANGED crop_size

(* ------------------- expand.py and expand_good.py ---------------------- *)
\* cv2.cvtColor(img, COLOR_BGR2RGB) and COLOR_RGB2BGR: the channels reversed
CvtColor(img) ==
    Image(img.h, img.w,
          [rc \in Pixels(img.h, img.w) |->
             LET p == img.px[rc] IN <<p[3], p[2], p[1]>>])

\* cv2.copyMakeBorder(img, top, bottom, left, right, BORDER_CONSTANT, gray)
CopyMakeBorder(img, top, bottom, left, right) ==
    Image(img.h + top + bottom, img.w + left + right,
          [rc \in Pixels(img.h + top + bottom, img.w + left + right) |->
             LET r == rc[1]
                 c == rc[2]
             IN  IF /\ top <= r /\ r < top + img.h
                    /\ left <= c /\ c < left + img.w
                 THEN img.px[<<r - top, c - left>>]
                 ELSE Gray])

InExpandBatch(t) == InBatch(t) /\ IsDigit(CurrentFile.name)

\* if not name.isdigit(): continue
ExpandSkipName ==
    /\ tool \in {"expand", "expand_good"}
    /\ InBatch(tool)
    /\ ~IsDigit(CurrentFile.name)
    /\ EndOfPair("skip_name")
    /\ UNCHANGED crop_size

\* batch_expand_images: the mask of the entry does not exist
ExpandMaskMissing ==
    /\ InExpandBatch("expand")
    /\ EndOfPair("warn_no_mask")
    /\ UNCHANGED crop_size

\* cv2.imread returns None
ExpandUnreadable ==
    /\ tool \in {"expand", "expand_good"}
    /\ InExpandBatch(tool)
    /\ EndOfPair("error_read")
    /\ UNCHANGED crop_size

\* expand_image: original and mask differ in height or width (ValueError)
ExpandShapeMismatch ==
    /\ InExpandBatch("expand")
    /\ EndOfPair("error_shape")
    /\ UNCHANGED crop_size

\* batch_expand_images: both images read and converted, expand_image entered
ExpandBegin ==
    /\ InExpandBatch("expand")
    /\ \E d \in Dims : \E m \in Masks(d[1], d[2]) :
          /\ original_image' = CvtColor(OriginalOf(d[1], d[2]))
          /\ mask_image' = CvtColor(m)
    /\ ext' = CurrentFile.ext
    /\ i' = 0
    /\ pc' = "expand"
    /\ log' = "pair"
    /\ UNCHANGED <<other_tools, config, outputs, canvas, crop_size, idx, j,
                   attempt, writes, valid_crop_counter>>

\* expand_image_no_mask_cv2: the image is read
ExpandNoMaskBegin ==
    /\ InExpandBatch("expand_good")
    /\ \E d \in Dims : original_image' = OriginalOf(d[1], d[2])
    /\ mask_image' = NoImage
    /\ ext' = CurrentFile.ext
    /\ i' = 0
    /\ pc' = "expand"
    /\ log' = "pair"
    /\ UNCHANGED <<other_tools, config, outputs, canvas, crop_size, idx, j,
                   attempt, writes, valid_crop_counter>>

\* random.randint(0, l - dim) raises ValueError when l - dim < 0
ExpandRaises(orig, l) ==
    \/ orig.h < orig.w /\ l - orig.h < 0
    \/ orig.w < orig.h /\ l - orig.w < 0

\* Variant: a square pair takes the height branch.
ExpandImage_padsquare(orig, mask, l) ==
    LET h == orig.h
        w == orig.w
    IN  IF h <= w
        THEN {[padding |-> [top |-> padding_top, left |-> 0,
                            h |-> l - h, w |-> 0],
               expanded_original |-> Paste(Full(l, w), padding_top, 0, orig),
               expanded_mask |-> Paste(Full(l, w), padding_top, 0, mask)] :
                 padding_top \in 0..(l - h)}
        ELSE {[padding |-> [top |-> 0, left |-> padding_left,
                            h |-> 0, w |-> l - w],
               expanded_original |-> Paste(Full(h, l), 0, padding_left, orig),
               expanded_mask |-> Paste(Full(h, l), 0, padding_left, mask)] :
                 padding_left \in 0..(l - w)}

\* one iteration of expand_image: the expanded pairs the draw can produce
ExpandImage(orig, mask, l) ==
    LET h == orig.h
        w == orig.w
    IN  IF h < w
        THEN {[padding |-> [top |-> padding_top, left |-> 0,
                            h |-> l - h, w |-> 0],
               expanded_original |-> Paste(Full(l, w), padding_top, 0, orig),
               expanded_mask |-> Paste(Full(l, w), padding_top, 0, mask)] :
                 padding_top \in 0..(l - h)}
        ELSE IF w < h
        THEN {[padding |-> [top |-> 0, left |-> padding_left,
                            h |-> 0, w |-> l - w],
               expanded_original |-> Paste(Full(h, l), 0, padding_left, orig),
               expanded_mask |-> Paste(Full(h, l), 0, padding_left, mask)] :
                 padding_left \in 0..(l - w)}
        ELSE {[padding |-> NoPadding,
               expanded_original |-> orig,
               expanded_mask |-> mask]}

\* one iteration of expand_image_no_mask_cv2
ExpandImageNoMask(orig, l) ==
    LET h == orig.h
        w == orig.w
    IN  IF h < w
        THEN {[padding |-> [top |-> padding_top, left |-> 0,
                            h |-> l - h, w |-> 0],
               expanded_original |->
                   CopyMakeBorder(orig, padding_top, (l - h) - padding_top, 0, 0),
               expanded_mask |-> NoImage] :
                 padding_top \in 0..(l - h)}
        ELSE IF w < h
        THEN {[padding |-> [top |-> 0, left |-> padding_left,
                            h |-> 0, w |-> l - w],
               expanded_original |->
                   CopyMakeBorder(orig, 0, 0, padding_left, (l - w) - padding_left),
               expanded_mask |-> NoImage] :
                 padding_left \in 0..(l - w)}
        ELSE {[padding |-> NoPadding,
               expanded_original |-> orig,
               expanded_mask |-> NoImage]}

\* expand_image, iteration i: expand the pair and write both files
ExpandStep ==
    /\ tool = "expand" /\ pc = "expand" /\ i < num_augmentations
    /\ ~ExpandRaises(original_image, expansion_target_size)
    /\ \E e \in ExpandImage(original_image, mask_image, expansion_target_size) :
          LET output_original_name ==
                  FileName(CurrentFile.name, "_expanded_", i + 1, "", ext)
              output_mask_name ==
                  FileName(CurrentFile.name, "_expanded_", i + 1, "_mask", ext)
          IN  /\ padding' = e.padding
              /\ expanded_original' = e.expanded_original
              /\ expanded_mask' = e.expanded_mask
              /\ writes' = Imwrites(output_original_name, output_mask_name,
                                    CvtColor(e.expanded_original),
                                    CvtColor(e.expanded_mask))
              /\ out_original_dir' =
                    WriteFile(out_original_dir, output_original_name, idx + 1)
              /\ out_mask_dir' =
                    WriteFile(out_mask_dir, output_mask_name, idx + 1)
    /\ i' = i + 1
    /\ log' = "expanded"
    /\ UNCHANGED <<other_tools, config, pair, crop_size, idx, pc, j, attempt,
                   processed_image_count, valid_crop_counter>>

\* expand_image_no_mask_cv2, iteration i: expand the image and write it
ExpandNoMaskStep ==
    /\ tool = "expand_good" /\ pc = "expand" /\ i < num_augmentations
    /\ ~ExpandRaises(original_image, expansion_target_size)
    /\ \E e \in ExpandImageNoMask(original_image, expansion_target_size) :
          LET output_original_name ==
                  FileName(CurrentFile.name, "_expanded_cv2_", i + 1, "", ext)
          IN  /\ padding' = e.padding
              /\ expanded_original' = e.expanded_original
              /\ expanded_mask' = e.expanded_mask
              /\ writes' = <<[dir |-> "original", path |-> output_original_name,
                              image |-> e.expanded_original]>>
              /\ out_original_dir' =
                    WriteFile(out_original_dir, output_original_name, idx + 1)
    /\ i' = i + 1
    /\ log' = "expanded"
    /\ UNCHANGED <<other_tools, config, pair, crop_size, idx, pc, j, attempt,
                   out_mask_dir, processed_image_count, valid_crop_counter>>

\* the draw of the padding raises ValueError: the pair is abandoned
ExpandValueError ==
    /\ tool \in {"expand", "expand_good"}
    /\ pc = "expand" /\ i < num_augmentations
    /\ ExpandRaises(original_image, expansion_target_size)
    /\ EndOfPair("error_value")
    /\ UNCHANGED crop_size

\* all expansions of the pair are written
ExpandEnd ==
    /\ tool \in {"expand", "expand_good"}
    /\ pc = "expand" /\ i = num_augmentations
    /\ EndOfPair("pair_done")
    /\ UNCHANGED crop_size

(* --------------------- crop.py and crop_good.py ------------------------ *)
\* crop_size = int(shorter_side * crop_size_ratio), clamped to the shorter side
CropSizeOf(img, ratio) ==
    LET shorter_side == Min(img.w, img.h)
        size == (shorter_side * ratio[1]) \div ratio[2]
    IN  IF size > img.w \/ size > img.h THEN shorter_side ELSE size

\* batch_crop_images: the mask of the entry does not exist
CropMaskMissing ==
    /\ InBatch("crop")
    /\ EndOfPair("warn_no_mask")
    /\ UNCHANGED crop_size

\* cv2.imread returns None (FileNotFoundError)
CropUnreadable ==
    /\ tool \in {"crop", "crop_good"}
    /\ InBatch(tool)
    /\ EndOfPair("error_read")
    /\ UNCHANGED crop_size

\* crop_image: original and mask differ in height or width (ValueError)
CropShapeMismatch ==
    /\ InBatch("crop")
    /\ EndOfPair("error_shape")
    /\ UNCHANGED crop_size

\* crop_image: both images read, crop_size computed, counter at 0
CropBegin ==
    /\ InBatch("crop")
    /\ \E d \in Dims : \E m \in Masks(d[1], d[2]) :
          /\ original_image' = OriginalOf(d[1], d[2])
          /\ mask_image' = m
          /\ crop_size' = CropSizeOf(OriginalOf(d[1], d[2]), crop_size_ratio)
    /\ ext' = CurrentFile.ext
    /\ valid_crop_counter' = 0
    /\ j' = 0
    /\ pc' = "crop"
    /\ log' = "pair"
    /\ UNCHANGED <<other_tools, config, outputs, canvas, idx, i, attempt,
                   writes>>

\* crop_image_fast: the image is read, crop_size computed
FastBegin ==
    /\ InBatch("crop_good")
    /\ \E d \in Dims :
          /\ original_image' = OriginalOf(d[1], d[2])
          /\ crop_size' = CropSizeOf(OriginalOf(d[1], d[2]), crop_size_ratio)
    /\ mask_image' = NoImage
    /\ ext' = CurrentFile.ext
    /\ j' = 0
    /\ pc' = "crop"
    /\ log' = "pair"
    /\ UNCHANGED <<other_tools, config, outputs, canvas, idx, i, attempt,
                   writes, valid_crop_counter>>

\* if max_x < 0 or max_y < 0: break
CropBreaks(img, size) == img.w - size < 0 \/ img.h - size < 0

\* crop_image, one attempt that meets the threshold
CropImageAccepted ==
    /\ tool = "crop" /\ pc = "crop" /\ j < num_crops
    /\ ~CropBreaks(original_image, crop_size)
    /\ \E cand \in Candidates(original_image, mask_image, crop_size) :
          LET k == valid_crop_counter + 1
              output_original_name ==
                  FileName(CurrentFile.name, "_cropped_", k, "", OutputExt(ext))
              output_mask_name ==
                  FileName(CurrentFile.name, "_cropped_", k, "_mask",
                           OutputExt(ext))
          IN  /\ Accepted(cand, defect_threshold)
              /\ attempt' = cand
              /\ writes' = Imwrites(output_original_name, output_mask_name,
                                    cand.cropped_original, cand.cropped_mask)
              /\ out_original_dir' =
                    WriteFile(out_original_dir, output_original_name, idx + 1)
              /\ out_mask_dir' =
                    WriteFile(out_mask_dir, output_mask_name, idx + 1)
              /\ valid_crop_counter' = k
    /\ j' = j + 1
    /\ log' = "saved"
    /\ UNCHANGED <<other_tools, config, pair, canvas, crop_size, idx, pc, i,
                   processed_image_count>>

\* Variant: a rejected attempt advances the counter of the names.
CropImageRejected_counts ==
    /\ tool = "crop" /\ pc = "crop" /\ j < num_crops
    /\ ~CropBreaks(original_image, crop_size)
    /\ \E cand \in Candidates(original_image, mask_image, crop_size) :
          /\ ~Accepted(cand, defect_threshold)
          /\ attempt' = cand
    /\ writes' = <<>>
    /\ j' = j + 1
    /\ valid_crop_counter' = valid_crop_counter + 1
    /\ log' = "rejected"
    /\ UNCHANGED <<other_tools, config, outputs, pair, canvas, crop_size, idx,
                   pc, i>>

\* crop_image, one attempt below the threshold
CropImageRejected ==
    /\ tool = "crop" /\ pc = "crop" /\ j < num_crops
    /\ ~CropBreaks(original_image, crop_size)
    /\ \E cand \in Candidates(original_image, mask_image, crop_size) :
          /\ ~Accepted(cand, defect_threshold)
          /\ attempt' = cand
    /\ writes' = <<>>
    /\ j' = j + 1
    /\ log' = "rejected"
    /\ UNCHANGED <<other_tools, config, outputs, pair, canvas, crop_size, idx,
                   pc, i, valid_crop_counter>>

\* crop_image_fast, one crop: always written, named after the iteration
FastCrop ==
    /\ tool = "crop_good" /\ pc = "crop" /\ j < num_crops
    /\ ~CropBreaks(original_image, crop_size)
    /\ \E cand \in Candidates(original_image, mask_image, crop_size) :
          LET output_original_name ==
                  FileName(CurrentFile.name, "_cropped_", j + 1, "", ext)
          IN  /\ attempt' = cand
              /\ writes' = <<[dir |-> "original", path |-> output_original_name,
                              image |-> cand.cropped_original]>>
              /\ out_original_dir' =
                    WriteFile(out_original_dir, output_original_name, idx + 1)
    /\ j' = j + 1
    /\ log' = "saved"
    /\ UNCHANGED <<other_tools, config, pair, canvas, crop_size, idx, pc, i,
                   out_mask_dir, processed_image_count, valid_crop_counter>>

\* the loop over num_crops ends, by exhaustion or by the break
CropEnd ==
    /\ tool \in {"crop", "crop_good"}
    /\ pc = "crop"
    /\ j = num_crops \/ CropBreaks(original_image, crop_size)
    /\ EndOfPair(IF j = num_crops THEN "pair_done" ELSE "warn_undersized")
    /\ crop_size' = 0

(* ------------------------------ the run -------------------------------- *)
\* the listing is exhausted
BatchEnd ==
    /\ pc = "batch" /\ idx = Len(original_files)
    /\ pc' = "done"
    /\ log' = "done"
    /\ UNCHANGED <<other_tools, config, outputs, pair, canvas, crop_size, idx,
                   i, j, attempt, writes, valid_crop_counter>>

Next ==
    \/ BatchMaskMissing
    \/ PairUnreadable
    \/ PairShapeMismatch
    \/ PairBegin
    \/ AugExpand
    \/ AugUndersized
    \/ CropAccepted
    \/ CropRejected
    \/ AugEnd
    \/ PairEnd
    \/ ExpandSkipName
    \/ ExpandMaskMissing
    \/ ExpandUnreadable
    \/ ExpandShapeMismatch
    \/ ExpandBegin
    \/ ExpandNoMaskBegin
    \/ ExpandStep
    \/ ExpandNoMaskStep
    \/ ExpandValueError
    \/ ExpandEnd
    \/ CropMaskMissing
    \/ CropUnreadable
    \/ CropShapeMismatch
    \/ CropBegin
    \/ FastBegin
    \/ CropImageAccepted
    \/ CropImageRejected
    \/ FastCrop
    \/ CropEnd
    \/ BatchEnd

Spec == Init /\ [][Next]_vars

(* ------------------- runs with several augmentations ------------------- *)
\* One listing entry, expanded one more time than in the runs of Spec, by
\* process_image_pair; crop_image on the same entry.
AugInit ==
    /\ \/ /\ tool = "allinone"
          /\ expansion_target_size \in 1..MaxL
          /\ crop_size \in 1..MaxCrop
          /\ crop_size_ratio = <<1, 1>>
       \/ /\ tool = "crop"
          /\ expansion_target_size = 0
          /\ crop_size = 0
          /\ crop_size_ratio \in Ratios
    /\ defect_threshold \in Thresholds
    /\ original_files = <<[name |-> Stems[1], ext |-> Exts[1]]>>
    /\ num_augmentations = NumAug + 1
    /\ num_crops = NumCrops
    /\ InitRun
    /\ Writable
    /\ RenamingIdle
    /\ LabellingIdle
    /\ DirectoryIdle

AugNext ==
    \/ PairBegin
    \/ AugExpand
    \/ AugUndersized
    \/ CropAccepted
    \/ CropRejected
    \/ AugEnd
    \/ PairEnd
    \/ CropBegin
    \/ CropImageAccepted
    \/ CropImageRejected
    \/ CropEnd
    \/ BatchEnd

AugSpec == AugInit /\ [][AugNext]_vars

(* ---------------- runs in which cv2.imwrite can fail ------------------ *)
\* cv2.imwrite returns False when it cannot write the file, as under an
\* output root that is not writable; both croppers drop the returned value.
\* process_image_pair, an accepted crop of which a write fails: the counter
\* advances and "saved" is printed as for a written crop
CropAcceptedUnwritten ==
    /\ tool = "allinone" /\ pc = "crop" /\ j < num_crops
    /\ \E cand \in Candidates(expanded_original, expanded_mask, crop_size) :
          LET ok_original == "original" \notin unwritable
              ok_mask == "mask" \notin unwritable
              n == processed_image_count + 1
              output_original_name == OutputNames(n, ext)[1]
              output_mask_name == OutputNames(n, ext)[2]
          IN  /\ Accepted(cand, defect_threshold)
              /\ ~(ok_original /\ ok_mask)
              /\ processed_image_count' = n
              /\ attempt' = cand
              /\ writes' = Imwrites(output_original_name, output_mask_name,
                                    cand.cropped_original, cand.cropped_mask)
              /\ out_original_dir' =
                    IF ok_original
                    THEN WriteFile(out_original_dir, output_original_name,
                                   idx + 1)
                    ELSE out_original_dir
              /\ out_mask_dir' =
                    IF ok_mask
                    THEN WriteFile(out_mask_dir, output_mask_name, idx + 1)
                    ELSE out_mask_dir
    /\ j' = j + 1
    /\ log' = "saved"
    /\ UNCHANGED <<other_tools, config, pair, canvas, crop_size, idx, pc, i,
                   valid_crop_counter>>

\* crop_image, an accepted crop of which a write fails
CropImageAcceptedUnwritten ==
    /\ tool = "crop" /\ pc = "crop" /\ j < num_crops
    /\ ~CropBreaks(original_image, crop_size)
    /\ \E cand \in Candidates(original_image, mask_image, crop_size) :
          LET ok_original == "original" \notin unwritable
              ok_mask == "mask" \notin unwritable
              k == valid_crop_counter + 1
              output_original_name ==
                  FileName(CurrentFile.name, "_cropped_", k, "", OutputExt(ext))
              output_mask_name ==
                  FileName(CurrentFile.name, "_cropped_", k, "_mask",
                           OutputExt(ext))
          IN  /\ Accepted(cand, defect_threshold)
              /\ ~(ok_original /\ ok_mask)
              /\ attempt' = cand
              /\ writes' = Imwrites(output_original_name, output_mask_name,
                                    cand.cropped_original, cand.cropped_mask)
              /\ out_original_dir' =
                    IF ok_original
                    THEN WriteFile(out_original_dir, output_original_name,
                                   idx + 1)
                    ELSE out_original_dir
              /\ out_mask_dir' =
                    IF ok_mask
                    THEN WriteFile(out_mask_dir, output_mask_name, idx + 1)
                    ELSE out_mask_dir
              /\ valid_crop_counter' = k
    /\ j' = j + 1
    /\ log' = "saved"
    /\ UNCHANGED <<other_tools, config, pair, canvas, crop_size, idx, pc, i,
                   processed_image_count>>

WriteInit ==
    /\ \/ /\ tool = "allinone"
          /\ expansion_target_size \in 1..MaxL
          /\ crop_size \in 1..MaxCrop
          /\ crop_size_ratio = <<1, 1>>
       \/ /\ tool = "crop"
          /\ expansion_target_size = 0
          /\ crop_size = 0
          /\ crop_size_ratio \in Ratios
    /\ defect_threshold \in Thresholds
    /\ original_files =
          [k \in 1..NumPairs |-> [name |-> Stems[k], ext |-> Exts[1]]]
    /\ num_augmentations = NumAug
    /\ num_crops = NumCrops
    /\ unwritable \in (SUBSET {"original", "mask"}) \ {{}}
    /\ RenamingIdle
    /\ InitRun
    /\ LabellingIdle
    /\ DirectoryIdle

WriteNext ==
    \/ PairBegin
    \/ AugExpand
    \/ AugUndersized
    \/ CropAcceptedUnwritten
    \/ CropRejected
    \/ AugEnd
    \/ PairEnd
    \/ CropBegin
    \/ CropImageAcceptedUnwritten
    \/ CropImageRejected
    \/ CropEnd
    \/ BatchEnd

WriteSpec == WriteInit /\ [][WriteNext]_vars

(* ------------- runs of process_allinone.py on any numbers -------------- *)
\* __main__ converts the five answers with int() and float() and hands them
\* to batch_process_directory; no range is tested there or further down.
\* A negative crop_size is left out: Slice covers non-negative bounds.
ConfigValues ==
    [expansion_target_size : {0, MaxL - 1},
     crop_size : 0..MaxCrop,
     num_augmentations : {-1, NumAug},
     num_crops : {-1, NumCrops},
     defect_threshold : {-1, 1, ThresholdDen + 1}]

\* A value outside the documented ranges: sizes >= 1, counts >= 0 and a
\* threshold within [0, 1] (0..ThresholdDen in halves).
Invalid(c) ==
    \/ c.expansion_target_size <= 0
    \/ c.crop_size <= 0
    \/ c.num_augmentations < 0
    \/ c.num_crops < 0
    \/ c.defect_threshold < 0
    \/ c.defect_threshold > ThresholdDen

\* an accepted crop that holds pixels: CropAccepted as it stands
CropAcceptedWritten ==
    /\ crop_size > 0
    /\ CropAccepted

\* an accepted crop of crop_size 0: the counter advances, cv2.imwrite raises
\* cv2.error on the empty array and the except clause ends the pair
CropAcceptedEmpty ==
    /\ tool = "allinone" /\ pc = "crop" /\ j < num_crops
    /\ crop_size = 0
    /\ \E cand \in Candidates(expanded_original, expanded_mask, crop_size) :
          Accepted(cand, defect_threshold)
    /\ processed_image_count' = processed_image_count + 1
    /\ idx' = idx + 1
    /\ pc' = "batch"
    /\ original_image' = NoImage
    /\ mask_image' = NoImage
    /\ ext' = ""
    /\ i' = 0
    /\ padding' = NoPadding
    /\ expanded_original' = NoImage
    /\ expanded_mask' = NoImage
    /\ j' = 0
    /\ attempt' = NoAttempt
    /\ writes' = <<>>
    /\ log' = "error"
    /\ UNCHANGED <<other_tools, config, crop_size, out_original_dir,
                   out_mask_dir, valid_crop_counter>>

ConfigInit ==
    /\ tool = "allinone"
    /\ \E c \in ConfigValues :
          /\ Invalid(c)
          /\ expansion_target_size = c.expansion_target_size
          /\ crop_size = c.crop_size
          /\ num_augmentations = c.num_augmentations
          /\ num_crops = c.num_crops
          /\ defect_threshold = c.defect_threshold
    /\ crop_size_ratio = <<1, 1>>
    /\ original_files =
          [k \in 1..NumPairs |-> [name |-> Stems[k], ext |-> Exts[1]]]
    /\ InitRun
    /\ Writable
    /\ RenamingIdle
    /\ LabellingIdle
    /\ DirectoryIdle

ConfigNext ==
    \/ PairBegin
    \/ AugExpand
    \/ AugUndersized
    \/ CropAcceptedWritten
    \/ CropAcceptedEmpty
    \/ CropRejected
    \/ AugEnd
    \/ PairEnd
    \/ BatchEnd

ConfigSpec == ConfigInit /\ [][ConfigNext]_vars

(* ------------ crop.py and crop_good.py on any ratio above 0 ------------ *)
\* Ratios below, at and above 1; int() truncates, so a small image under a
\* ratio below 1 gets crop_size 0.
ClampRatios == {<<1, 2>>, <<1, 1>>, <<3, 2>>}

\* crop_image, an accepted crop that holds pixels: CropImageAccepted
CropImageAcceptedWritten ==
    /\ crop_size > 0
    /\ CropImageAccepted

\* crop_image, an accepted crop of crop_size 0 (ratio 0 >= threshold 0):
\* cv2.imwrite raises cv2.error on the empty array before the counter is
\* incremented, and the last except clause ends the image
CropImageAcceptedEmpty ==
    /\ tool = "crop" /\ pc = "crop" /\ j < num_crops
    /\ ~CropBreaks(original_image, crop_size)
    /\ crop_size = 0
    /\ \E cand \in Candidates(original_image, mask_image, crop_size) :
          Accepted(cand, defect_threshold)
    /\ EndOfPair("error")
    /\ crop_size' = 0

\* crop_image_fast, a crop that holds pixels: FastCrop
FastCropWritten ==
    /\ crop_size > 0
    /\ FastCrop

\* crop_image_fast, a crop of crop_size 0: cv2.imwrite raises cv2.error on
\* the empty array and the last except clause ends the image
FastCropEmpty ==
    /\ tool = "crop_good" /\ pc = "crop" /\ j < num_crops
    /\ ~CropBreaks(original_image, crop_size)
    /\ crop_size = 0
    /\ EndOfPair("error")
    /\ crop_size' = 0

ClampInit ==
    /\ tool \in {"crop", "crop_good"}
    /\ expansion_target_size = 0
    /\ crop_size = 0
    /\ crop_size_ratio \in ClampRatios
    /\ defect_threshold \in (IF tool = "crop" THEN Thresholds ELSE {0})
    /\ original_files =
          [k \in 1..NumPairs |-> [name |-> Stems[k], ext |-> Exts[1]]]
    /\ num_augmentations = NumAug
    /\ num_crops = NumCrops
    /\ InitRun
    /\ Writable
    /\ RenamingIdle
    /\ LabellingIdle
    /\ DirectoryIdle

ClampNext ==
    \/ CropBegin
    \/ FastBegin
    \/ CropImageAcceptedWritten
    \/ CropImageAcceptedEmpty
    \/ CropImageRejected
    \/ FastCropWritten
    \/ FastCropEmpty
    \/ CropEnd
    \/ BatchEnd

ClampSpec == ClampInit /\ [][ClampNext]_vars

(* -------- batch_crop_images on sources that share their stem ---------- *)
\* Two distinct originals of one stem: an extension cv2 is not asked to
\* write, which crop_image replaces by ".png", and ".png" itself.
SameStemListing ==
    <<[name |-> Stems[1], ext |-> Exts[2]],
      [name |-> Stems[1], ext |-> ".png"]>>

SameStemInit ==
    /\ tool = "crop"
    /\ expansion_target_size = 0
    /\ crop_size = 0
    /\ crop_size_ratio \in Ratios
    /\ defect_threshold \in Thresholds
    /\ original_files = SameStemListing
    /\ num_augmentations = NumAug
    /\ num_crops = NumCrops
    /\ InitRun
    /\ Writable
    /\ RenamingIdle
    /\ LabellingIdle
    /\ DirectoryIdle

SameStemNext ==
    \/ CropMaskMissing
    \/ CropBegin
    \/ CropImageAccepted
    \/ CropImageRejected
    \/ CropEnd
    \/ BatchEnd

SameStemSpec == SameStemInit /\ [][SameStemNext]_vars

(* ------------------------- mask_and_label.py --------------------------- *)
\* The variables of the image tools that mask_and_label.py does not use.
image_state == <<expansion_target_size, crop_size, crop_size_ratio,
                 defect_threshold, num_augmentations, num_crops,
                 original_files, original_image, mask_image, ext, i, padding,
                 expanded_original, expanded_mask, j, attempt, writes,
                 processed_image_count, valid_crop_counter, out_original_dir,
                 out_mask_dir>>

ImageToolsIdle ==
    /\ expansion_target_size = 0
    /\ crop_size = 0
    /\ crop_size_ratio = <<1, 1>>
    /\ defect_threshold = 0
    /\ num_augmentations = 0
    /\ num_crops = 0
    /\ original_files = <<>>
    /\ InitRun

DefectIds == {1, 3}

NearBlack == <<0, 0, 1>>

\* Label pixels: an id on all three channels, or on two of them only.
LabelPixels == {<<d, d, d>> : d \in DefectIds} \cup {<<3, 3, 0>>}

MaskPixels == {Black, White, NearBlack}

\* The shapes of at most MaxLabelArea pixels.
LabelDims ==
    {d \in (1..MaxLabelArea) \X (1..MaxLabelArea) : d[1] * d[2] <= MaxLabelArea}

\* All the h x w grids over a set of pixel values.
Grids(h, w, values) == {Image(h, w, px) : px \in [Pixels(h, w) -> values]}

\* Variant: np.any in place of np.all on the channels of the label.
ExtractDefectMask_anychannel(label, mask, id) ==
    LET defect_mask ==
            {p \in DOMAIN label.px : \E ch \in 1..3 : label.px[p][ch] = id}
    IN  IF defect_mask = {}
        THEN NoImage
        ELSE Image(mask.h, mask.w,
                   [p \in Pixels(mask.h, mask.w) |->
                      IF p \in defect_mask THEN mask.px[p] ELSE Black])

\* extract_defect_mask on two grids of one shape: the mask where the label
\* equals the id on all channels, zero elsewhere; None without such a pixel
ExtractDefectMask(label, mask, id) ==
    LET defect_mask ==
            {p \in DOMAIN label.px : \A ch \in 1..3 : label.px[p][ch] = id}
    IN  IF defect_mask = {}
        THEN NoImage
        ELSE Image(mask.h, mask.w,
                   [p \in Pixels(mask.h, mask.w) |->
                      IF p \in defect_mask THEN mask.px[p] ELSE Black])

\* Variant: np.any in place of np.all on the channels of the mask.
ConvertToGrayWhite_anychannel(img) ==
    Image(img.h, img.w,
          [p \in Pixels(img.h, img.w) |->
             IF \E ch \in 1..3 : img.px[p][ch] = 0 THEN Gray ELSE img.px[p]])

\* convert_to_gray_white: (0, 0, 0) becomes (127, 127, 127)
ConvertToGrayWhite(img) ==
    Image(img.h, img.w,
          [p \in Pixels(img.h, img.w) |->
             IF \A ch \in 1..3 : img.px[p][ch] = 0 THEN Gray ELSE img.px[p]])

\* The file sets find_matching_files returns: base name and extension.
FileSets == [k \in 1..NumPairs |-> [name |-> Stems[k], ext |-> ".png"]]

LabelInit ==
    /\ tool = "mask_and_label"
    /\ matching_files = FileSets
    /\ defect_id \in DefectIds
    /\ label_img = NoImage
    /\ mask_img = NoImage
    /\ processed_mask = NoImage
    /\ gray_white_mask = NoImage
    /\ processed_count = 0
    /\ skipped_count = 0
    /\ error_count = 0
    /\ copied_originals_count = 0
    /\ original_not_found_count = 0
    /\ output_dir = EmptyDir
    /\ output_original_image_dir = EmptyDir
    /\ ImageToolsIdle
    /\ Writable
    /\ RenamingIdle
    /\ DirectoryIdle

InFileSets == tool = "mask_and_label" /\ pc = "batch" /\ idx < Len(matching_files)

file_set == matching_files[idx + 1]

\* if processed_mask is None: skipped_count += 1; continue
FileSetSkipped(label, mask) ==
    /\ label_img' = label
    /\ mask_img' = mask
    /\ processed_mask' = NoImage
    /\ gray_white_mask' = NoImage
    /\ skipped_count' = skipped_count + 1
    /\ idx' = idx + 1
    /\ log' = "skipped"
    /\ UNCHANGED <<tool, pc, matching_files, defect_id, processed_count,
                   error_count, copied_originals_count,
                   original_not_found_count, output_dir,
                   output_original_image_dir, image_state, directory,
                   unwritable, renaming>>

\* extract_defect_mask: the label or the mask cannot be read
ExtractUnreadable ==
    /\ InFileSets
    /\ \/ FileSetSkipped(NoImage, NoImage)
       \/ \E d \in LabelDims : \E label \in Grids(d[1], d[2], {<<3, 3, 3>>}) :
             FileSetSkipped(label, NoImage)

\* extract_defect_mask: label and mask differ in shape
ExtractShapeMismatch ==
    /\ InFileSets
    /\ \E d, e \in LabelDims :
          /\ d # e
          /\ \E label \in Grids(d[1], d[2], {<<3, 3, 3>>}) :
             \E mask \in Grids(e[1], e[2], {White}) :
                FileSetSkipped(label, mask)

\* extract_defect_mask: no pixel of the label carries the id
ExtractNoDefect ==
    /\ InFileSets
    /\ \E d \in LabelDims :
       \E label \in Grids(d[1], d[2], LabelPixels) :
       \E mask \in Grids(d[1], d[2], MaskPixels) :
          /\ ExtractDefectMask(label, mask, defect_id) = NoImage
          /\ FileSetSkipped(label, mask)

\* the id is found: the original is copied if it exists and the copy
\* succeeds, then the mask is converted and saved if the write succeeds
FileSetProcessed ==
    /\ InFileSets
    /\ \E d \in LabelDims :
       \E label \in Grids(d[1], d[2], LabelPixels) :
       \E mask \in Grids(d[1], d[2], MaskPixels) :
          /\ ExtractDefectMask(label, mask, defect_id) # NoImage
          /\ label_img' = label
          /\ mask_img' = mask
          /\ processed_mask' = ExtractDefectMask(label, mask, defect_id)
          /\ gray_white_mask' =
                ConvertToGrayWhite(ExtractDefectMask(label, mask, defect_id))
    /\ \E original_exists, copied \in BOOLEAN :
          LET original_image_name ==
                  FileName(file_set.name, "", 0, "", file_set.ext)
          IN  /\ ~original_exists => ~copied
              /\ copied_originals_count' =
                    copied_originals_count + (IF copied THEN 1 ELSE 0)
              /\ original_not_found_count' =
                    original_not_found_count
                        + (IF original_exists THEN 0 ELSE 1)
              /\ output_original_image_dir' =
                    IF copied
                    THEN WriteFile(output_original_image_dir,
                                   original_image_name, idx + 1)
                    ELSE output_original_image_dir
    /\ \E success \in BOOLEAN :
          LET mask_file_name ==
                  FileName(file_set.name, "", 0, "_mask", file_set.ext)
          IN  /\ processed_count' = processed_count + (IF success THEN 1 ELSE 0)
              /\ error_count' = error_count + (IF success THEN 0 ELSE 1)
              /\ output_dir' =
                    IF success
                    THEN WriteFile(output_dir, mask_file_name, idx + 1)
                    ELSE output_dir
              /\ log' = IF success THEN "mask_saved" ELSE "mask_error"
    /\ idx' = idx + 1
    /\ UNCHANGED <<tool, pc, matching_files, defect_id, skipped_count,
                   image_state, directory, unwritable, renaming>>

\* the loop over matching_files ends
FileSetsEnd ==
    /\ tool = "mask_and_label" /\ pc = "batch" /\ idx = Len(matching_files)
    /\ pc' = "done"
    /\ log' = "done"
    /\ UNCHANGED <<tool, idx, labelling, image_state, directory, unwritable,
                   renaming>>

LabelNext ==
    \/ ExtractUnreadable
    \/ ExtractShapeMismatch
    \/ ExtractNoDefect
    \/ FileSetProcessed
    \/ FileSetsEnd

LabelSpec == LabelInit /\ [][LabelNext]_vars

(* --------- the input directory of batch_process_directory and ---------- *)
(* --------- batch_crop_images while other programs change it ------------ *)
\* File names as token sequences: a stem, "" or "_mask", an extension.
DirFile(stem, suffix, e) == [stem |-> stem, suffix |-> suffix, ext |-> e]

\* "1", "1_expanded_1" and "1_expanded_1_expanded_2"
DirStems ==
    <<(<<"1">>),
      (<<"1", "_expanded_", "1">>),
      (<<"1", "_expanded_", "1", "_expanded_", "2">>)>>

AllOriginals == [k \in DOMAIN DirStems |-> DirFile(DirStems[k], "", ".png")]

DirFiles ==
    {DirFile(DirStems[k], suffix, ".png") :
        k \in DOMAIN DirStems, suffix \in {"", "_mask"}}

\* [f for f in os.listdir(d) if "_mask" not in f and os.path.isfile(...)]
ListDir(dir) == SelectSeq(AllOriginals, LAMBDA f : f \in dir)

\* The index of the first "_expanded_" of a token sequence, 0 if none.
RECURSIVE FindExpanded(_, _)
FindExpanded(s, k) ==
    IF k > Len(s) THEN 0
    ELSE IF s[k] = "_expanded_" THEN k
    ELSE FindExpanded(s, k + 1)

\* base_name.split("_expanded_")
RECURSIVE SplitExpanded(_)
SplitExpanded(s) ==
    LET k == FindExpanded(s, 1)
    IN  IF k = 0
        THEN <<s>>
        ELSE <<SubSeq(s, 1, k - 1)>> \o SplitExpanded(SubSeq(s, k + 1, Len(s)))

\* The mask name batch_crop_images looks up for an original.
CropMaskFile(f) ==
    LET mask_file_name_parts == SplitExpanded(f.stem)
    IN  IF Len(mask_file_name_parts) > 1
        THEN DirFile(mask_file_name_parts[1] \o <<"_expanded_">>
                         \o mask_file_name_parts[2],
                     "_mask", f.ext)
        ELSE DirFile(f.stem, "_mask", f.ext)

\* mask_file = name + mask_suffix + ext in batch_process_directory
MaskFileOf(t, f) ==
    IF t = "crop" THEN CropMaskFile(f) ELSE DirFile(f.stem, "_mask", f.ext)

\* Variant: the files are looked for in the directory as it was at the start.
Exists_atstart(f) == f \in initial_dir

\* os.path.exists(path), and cv2.imread(path) is not None
Exists(f) == f \in input_dir

\* The variables of the image tools that the listing steps do not use.
pair_state == <<expansion_target_size, crop_size, crop_size_ratio,
                defect_threshold, num_augmentations, num_crops,
                original_image, mask_image, ext, i, padding,
                expanded_original, expanded_mask, j, attempt, writes,
                processed_image_count, valid_crop_counter, out_original_dir,
                out_mask_dir>>

DirInit ==
    /\ tool \in {"allinone", "crop"}
    /\ input_dir \in SUBSET DirFiles
    /\ initial_dir = input_dir
    /\ original_files = ListDir(input_dir)
    /\ mask_file = ""
    /\ processed = {}
    /\ changes = 0
    /\ expansion_target_size = 0
    /\ crop_size = 0
    /\ crop_size_ratio = <<1, 1>>
    /\ defect_threshold = 0
    /\ num_augmentations = 0
    /\ num_crops = 0
    /\ InitRun
    /\ Writable
    /\ RenamingIdle
    /\ LabellingIdle

InListing == pc = "batch" /\ idx < Len(original_files)

\* another program adds a file while the run is in progress
FileAdded ==
    /\ pc = "batch" /\ changes < MaxDirChanges
    /\ \E f \in DirFiles \ input_dir : input_dir' = input_dir \cup {f}
    /\ changes' = changes + 1
    /\ UNCHANGED <<tool, original_files, idx, pc, log, initial_dir, mask_file,
                   processed, pair_state, labelling, unwritable, renaming>>

\* another program removes a file while the run is in progress
FileRemoved ==
    /\ pc = "batch" /\ changes < MaxDirChanges
    /\ \E f \in input_dir : input_dir' = input_dir \ {f}
    /\ changes' = changes + 1
    /\ UNCHANGED <<tool, original_files, idx, pc, log, initial_dir, mask_file,
                   processed, pair_state, labelling, unwritable, renaming>>

\* the mask of the entry does not exist: warning, next entry
ListedMaskMissing ==
    /\ InListing
    /\ ~Exists(MaskFileOf(tool, CurrentFile))
    /\ mask_file' = MaskFileOf(tool, CurrentFile)
    /\ idx' = idx + 1
    /\ log' = "warn_no_mask"
    /\ UNCHANGED <<tool, original_files, pc, input_dir, initial_dir, processed,
                   changes, pair_state, labelling, unwritable, renaming>>

\* the mask exists but the original is gone: the pair function reports it
ListedPairUnreadable ==
    /\ InListing
    /\ Exists(MaskFileOf(tool, CurrentFile))
    /\ ~Exists(CurrentFile)
    /\ mask_file' = MaskFileOf(tool, CurrentFile)
    /\ idx' = idx + 1
    /\ log' = "error_read"
    /\ UNCHANGED <<tool, original_files, pc, input_dir, initial_dir, processed,
                   changes, pair_state, labelling, unwritable, renaming>>

\* the mask exists: the pair function runs on the original and that mask
ListedPairProcessed ==
    /\ InListing
    /\ Exists(MaskFileOf(tool, CurrentFile))
    /\ Exists(CurrentFile)
    /\ mask_file' = MaskFileOf(tool, CurrentFile)
    /\ processed' = processed \cup {idx + 1}
    /\ idx' = idx + 1
    /\ log' = "pair_done"
    /\ UNCHANGED <<tool, original_files, pc, input_dir, initial_dir, changes,
                   pair_state, labelling, unwritable, renaming>>

\* the listing is exhausted
ListingEnd ==
    /\ pc = "batch" /\ idx = Len(original_files)
    /\ pc' = "done"
    /\ log' = "done"
    /\ UNCHANGED <<tool, original_files, idx, directory, pair_state,
                   labelling, unwritable, renaming>>

DirNext ==
    \/ FileAdded
    \/ FileRemoved
    \/ ListedMaskMissing
    \/ ListedPairUnreadable
    \/ ListedPairProcessed
    \/ ListingEnd

DirSpec == DirInit /\ [][DirNext]_vars

(* ------------------------------ rename.py ------------------------------ *)
\* A file name is a sequence of tokens. No token is the beginning of another
\* one, so two names are the same string exactly when they are the same
\* sequence, and the order of the strings is the order of the sequences.
TempPrefix == "__temp_rename_"

\* The tokens that begin with a period; the period occurs nowhere else.
ExtTokens == {".PNG", ".jpg", ".png"}

\* f"{index}"
Numerals == <<"1", "2", "3", "4", "5", "6">>

\* All tokens, in the order of their code points.
TokenOrder ==
    <<".PNG", ".jpg", ".png", "1", "2", "3", "4", "5", "6", TempPrefix, "_m",
      "a", "x">>

TokenRank(t) == CHOOSE k \in DOMAIN TokenOrder : TokenOrder[k] = t

\* a < b on str
RECURSIVE NameLess(_, _)
NameLess(a, b) ==
    IF a = <<>> THEN b # <<>>
    ELSE IF b = <<>> THEN FALSE
    ELSE IF a[1] = b[1] THEN NameLess(Tail(a), Tail(b))
    ELSE TokenRank(a[1]) < TokenRank(b[1])

\* files_to_process.sort()
RECURSIVE SortNames(_)
SortNames(names) ==
    IF names = {} THEN <<>>
    ELSE LET first == CHOOSE x \in names :
                         \A y \in names \ {x} : NameLess(x, y)
         IN  <<first>> \o SortNames(names \ {first})

\* os.listdir: the names in an arbitrary order
ListingsOf(names) ==
    {s \in [1..Cardinality(names) -> names] :
        \A k1, k2 \in DOMAIN s : k1 # k2 => s[k1] # s[k2]}

\* os.path.splitext: the extension starts at the last period that is not the
\* first character of the name
Splitext(filename) ==
    LET dots == {k \in 2..Len(filename) : filename[k] \in ExtTokens}
    IN  IF dots = {}
        THEN [base_name |-> filename, extension |-> <<>>]
        ELSE LET last == CHOOSE k \in dots : \A m \in dots : m <= k
             IN  [base_name |-> SubSeq(filename, 1, last - 1),
                  extension |-> SubSeq(filename, last, Len(filename))]

\* str.lower()
Lower(filename) ==
    [k \in DOMAIN filename |->
        IF filename[k] = ".PNG" THEN ".png" ELSE filename[k]]

\* filename.lower().endswith(old_extension.lower()); true of the empty string
EndsWith(filename, old_extension) ==
    /\ Len(old_extension) <= Len(filename)
    /\ SubSeq(Lower(filename), Len(filename) - Len(old_extension) + 1,
              Len(filename)) = Lower(old_extension)

\* filename[:-len(old_extension)]; -0 is 0, so the empty extension leaves ''
StripExtension(filename, old_extension) ==
    IF Len(old_extension) = 0
    THEN <<>>
    ELSE SubSeq(filename, 1, Len(filename) - Len(old_extension))

\* '.' in filename
HasDot(filename) == \E k \in DOMAIN filename : filename[k] \in ExtTokens

\* old_string in base_name, for an old_string of one token
Contains(base_name, old_string) ==
    \E k \in DOMAIN base_name : base_name[k] = old_string

\* base_name.replace(old_string, new_string)
RECURSIVE Replace(_, _, _)
Replace(base_name, old_string, new_string) ==
    IF base_name = <<>> THEN <<>>
    ELSE (IF base_name[1] = old_string THEN new_string ELSE <<base_name[1]>>)
            \o Replace(Tail(base_name), old_string, new_string)

\* The names a source directory is drawn from.
RenameNames ==
    {<<"a">>, <<"a", ".png">>, <<"a", ".PNG">>, <<"x", "a", ".png">>,
     <<"a", "_m", ".png">>, <<"1", ".png">>, <<"2", ".png">>, <<"2", ".jpg">>,
     <<TempPrefix, "1", ".png">>, <<TempPrefix, "2", ".png">>}

\* A directory of regular files, each holding its own content.
DirectoryOf(names) == [n \in names |-> n]

\* The arguments the five batch functions can be given.
RenameArgs ==
    [suffix |-> {[suffix |-> <<"_m">>]},
     sequential |-> {<<>>},
     prefix |-> {[prefix |-> <<"x">>]},
     extension |-> {[old_extension |-> o, new_extension |-> <<".jpg">>] :
                       o \in {<<>>, <<".png">>}},
     replace |-> {[old_string |-> "x", new_string |-> n] :
                     n \in {<<>>, <<"a">>}}]

Choices == {"suffix", "sequential", "prefix", "extension", "replace"}

RenameInit ==
    /\ tool = "rename"
    /\ user_choice \in Choices
    /\ in_place \in BOOLEAN
    /\ args \in RenameArgs[user_choice]
    /\ \E names \in SUBSET RenameNames :
          /\ Cardinality(names) \in 1..MaxFiles
          /\ source_directory = DirectoryOf(names)
          /\ files_to_process \in
                IF user_choice = "sequential"
                THEN {SortNames(names)}
                ELSE ListingsOf(names)
    /\ output_directory = EmptyDir
    /\ temp_renames = <<>>
    /\ counts = [total_files |-> 0, processed_count |-> 0]
    /\ idx = 0
    /\ pc = IF user_choice = "sequential" /\ in_place THEN "phase1" ELSE "loop"
    /\ log = "start"
    /\ expansion_target_size = 0
    /\ crop_size = 0
    /\ crop_size_ratio = <<1, 1>>
    /\ defect_threshold = 0
    /\ num_augmentations = 0
    /\ num_crops = 0
    /\ original_files = <<>>
    /\ original_image = NoImage
    /\ mask_image = NoImage
    /\ ext = ""
    /\ i = 0
    /\ padding = NoPadding
    /\ expanded_original = NoImage
    /\ expanded_mask = NoImage
    /\ j = 0
    /\ attempt = NoAttempt
    /\ writes = <<>>
    /\ processed_image_count = 0
    /\ valid_crop_counter = 0
    /\ out_original_dir = EmptyDir
    /\ out_mask_dir = EmptyDir
    /\ Writable
    /\ LabellingIdle
    /\ DirectoryIdle

\* shutil.move(old, new) inside one directory: os.rename replaces a file that
\* is already at the new name; a missing old file raises OSError
Move(dir, old, new) ==
    IF old \notin DOMAIN dir
    THEN dir
    ELSE [n \in (DOMAIN dir \ {old}) \cup {new} |->
             IF n = new THEN dir[old] ELSE dir[n]]

\* shutil.copy2(old, new) from the source into the output directory
Copy(src, dst, old, new) ==
    IF old \notin DOMAIN src
    THEN dst
    ELSE [n \in DOMAIN dst \cup {new} |-> IF n = new THEN src[old] ELSE dst[n]]

\* Variant: the file is moved out of the source whatever the two paths are.
ProcessFile_move(filename, new_filename_only) ==
    /\ source_directory' =
          IF in_place
          THEN Move(source_directory, filename, new_filename_only)
          ELSE [n \in DOMAIN source_directory \ {filename} |->
                   source_directory[n]]
    /\ output_directory' =
          IF in_place
          THEN output_directory
          ELSE Copy(source_directory, output_directory, filename,
                    new_filename_only)

\* _process_file: move within the directory when the two resolved paths are
\* equal, copy into the output directory otherwise
ProcessFile(filename, new_filename_only) ==
    /\ source_directory' =
          IF in_place
          THEN Move(source_directory, filename, new_filename_only)
          ELSE source_directory
    /\ output_directory' =
          IF in_place
          THEN output_directory
          ELSE Copy(source_directory, output_directory, filename,
                    new_filename_only)

InLoop(choice) ==
    /\ tool = "rename" /\ user_choice = choice
    /\ pc = "loop" /\ idx < Len(files_to_process)

filename == files_to_process[idx + 1]

\* The entry is a regular file that gets a new name: both counters advance
\* (processed_count only when _process_file returns True).
EntryProcessed(new_filename_only) ==
    /\ ProcessFile(filename, new_filename_only)
    /\ counts' =
          [total_files |-> counts.total_files + 1,
           processed_count |->
               counts.processed_count
                   + (IF filename \in DOMAIN source_directory THEN 1 ELSE 0)]
    /\ idx' = idx + 1
    /\ log' = IF filename \notin DOMAIN source_directory THEN "failed"
              ELSE IF in_place THEN "renamed" ELSE "copied"
    /\ UNCHANGED <<tool, pc, user_choice, in_place, args, files_to_process,
                   temp_renames, image_state, labelling, directory,
                   unwritable>>

\* The entry is passed over with a message.
EntrySkipped ==
    /\ idx' = idx + 1
    /\ log' = "skipped"
    /\ UNCHANGED <<tool, pc, renaming, image_state, labelling, directory,
                   unwritable>>

\* batch_add_suffix_to_filenames, one listing entry
BatchAddSuffix ==
    /\ InLoop("suffix")
    /\ LET base_name == Splitext(filename).base_name
           extension == Splitext(filename).extension
       IN  EntryProcessed(base_name \o args.suffix \o extension)

\* batch_add_prefix_to_filenames, one listing entry
BatchAddPrefix ==
    /\ InLoop("prefix")
    /\ EntryProcessed(args.prefix \o filename)

\* batch_replace_file_extensions, one listing entry that takes the first
\* branch: the name ends with old_extension
ExtensionReplaced ==
    /\ InLoop("extension")
    /\ EndsWith(filename, args.old_extension)
    /\ LET base_name == StripExtension(filename, args.old_extension)
       IN  EntryProcessed(base_name \o args.new_extension)

\* batch_replace_file_extensions, one listing entry that fails the first test;
\* with old_extension = '' the first test holds of every name, which leaves
\* the branch "old_extension == '' and '.' not in filename" without a case
ExtensionSkipped ==
    /\ InLoop("extension")
    /\ ~EndsWith(filename, args.old_extension)
    /\ args.old_extension # <<>>
    /\ EntrySkipped

\* batch_replace_in_filenames, one listing entry whose base holds old_string
FilenameReplaced ==
    /\ InLoop("replace")
    /\ LET base_name == Splitext(filename).base_name
           extension == Splitext(filename).extension
       IN  /\ Contains(base_name, args.old_string)
           /\ EntryProcessed(Replace(base_name, args.old_string,
                                     args.new_string) \o extension)

\* batch_replace_in_filenames, one listing entry without old_string
FilenameSkipped ==
    /\ InLoop("replace")
    /\ ~Contains(Splitext(filename).base_name, args.old_string)
    /\ EntrySkipped

\* batch_rename_files_sequentially into another directory, one listing entry
SequentialCopy ==
    /\ InLoop("sequential")
    /\ ~in_place
    /\ EntryProcessed(<<Numerals[idx + 1]>> \o Splitext(filename).extension)

\* batch_rename_files_sequentially in place, phase 1, one listing entry: the
\* file is moved to its temporary name; a failed move is skipped
SequentialTemp ==
    /\ tool = "rename" /\ pc = "phase1" /\ idx < Len(files_to_process)
    /\ LET index == idx + 1
           extension == Splitext(filename).extension
           temp_filename_only == <<TempPrefix, Numerals[index]>> \o extension
       IN  /\ source_directory' =
                 Move(source_directory, filename, temp_filename_only)
           /\ temp_renames' =
                 IF filename \in DOMAIN source_directory
                 THEN Append(temp_renames,
                             [temp_filepath |-> temp_filename_only,
                              final_filename_only |->
                                  <<Numerals[index]>> \o extension,
                              original_filename |-> filename])
                 ELSE temp_renames
    /\ idx' = idx + 1
    /\ log' = IF filename \in DOMAIN source_directory
              THEN "temp_renamed" ELSE "failed"
    /\ UNCHANGED <<tool, pc, user_choice, in_place, args, output_directory,
                   files_to_process, counts, image_state, labelling, directory,
                   unwritable>>

\* phase 1 is over
SequentialTempEnd ==
    /\ tool = "rename" /\ pc = "phase1" /\ idx = Len(files_to_process)
    /\ pc' = "phase2"
    /\ idx' = 0
    /\ log' = "phase2"
    /\ UNCHANGED <<tool, renaming, image_state, labelling, directory,
                   unwritable>>

\* phase 2, one entry of temp_renames: the file is moved from its temporary
\* name to its final name; a failed move is reported
SequentialFinal ==
    /\ tool = "rename" /\ pc = "phase2" /\ idx < Len(temp_renames)
    /\ LET r == temp_renames[idx + 1]
           moved == r.temp_filepath \in DOMAIN source_directory
       IN  /\ source_directory' =
                 Move(source_directory, r.temp_filepath, r.final_filename_only)
           /\ counts' =
                 [counts EXCEPT !.processed_count =
                                   @ + (IF moved THEN 1 ELSE 0)]
           /\ log' = IF moved THEN "renamed" ELSE "failed"
    /\ idx' = idx + 1
    /\ UNCHANGED <<tool, pc, user_choice, in_place, args, output_directory,
                   files_to_process, temp_renames, image_state, labelling,
                   directory, unwritable>>

\* the batch function prints its summary and returns
RenameEnd ==
    /\ tool = "rename"
    /\ \/ pc = "loop" /\ idx = Len(files_to_process)
       \/ pc = "phase2" /\ idx = Len(temp_renames)
    /\ pc' = "done"
    /\ log' = "done"
    /\ UNCHANGED <<tool, idx, renaming, image_state, labelling, directory,
                   unwritable>>

RenameNext ==
    \/ BatchAddSuffix
    \/ BatchAddPrefix
    \/ ExtensionReplaced
    \/ ExtensionSkipped
    \/ FilenameReplaced
    \/ FilenameSkipped
    \/ SequentialCopy
    \/ SequentialTemp
    \/ SequentialTempEnd
    \/ SequentialFinal
    \/ RenameEnd

RenameSpec == RenameInit /\ [][RenameNext]_vars

(* ------------------------------ properties ----------------------------- *)
\* A step that makes one crop attempt.
AttemptStep == pc = "crop" /\ j' = j + 1

\* The pair of images the cropper of the running tool works on.
CropSource ==
    IF tool = "allinone"
    THEN [original |-> expanded_original, mask |-> expanded_mask]
    ELSE [original |-> original_image, mask |-> mask_image]

HasAttempt == attempt # NoAttempt

\* C1: in crop_image and process_image_pair an attempt writes its pair of
\* files (the original crop, then the mask crop, into the two output roots)
\* if and only if its defect ratio is at least the threshold; a rejected
\* attempt writes nothing and leaves both output roots and counters as they were.
C1_WrittenIffAccepted ==
    [][(tool \in {"allinone", "crop"} /\ AttemptStep) =>
         LET a == attempt'
         IN  IF a.defect_pixels_count * ThresholdDen
                    >= defect_threshold * a.total_pixels
             THEN /\ Len(writes') = 2
                  /\ writes'[1].dir = "original"
                  /\ writes'[1].image = a.cropped_original
                  /\ writes'[2].dir = "mask"
                  /\ writes'[2].image = a.cropped_mask
                  /\ DOMAIN out_original_dir' =
                         DOMAIN out_original_dir \cup {writes'[1].path}
                  /\ DOMAIN out_mask_dir' =
                         DOMAIN out_mask_dir \cup {writes'[2].path}
             ELSE /\ writes' = <<>>
                  /\ UNCHANGED <<out_original_dir, out_mask_dir,
                                 processed_image_count, valid_crop_counter>>]_vars

\* A rejected attempt that follows a saved one.
C1_Witness ==
    /\ tool = "allinone"
    /\ log = "rejected"
    /\ writes = <<>>
    /\ processed_image_count = 1
    /\ attempt.defect_pixels_count > 0

\* C2: every candidate drawn by the croppers lies inside the canvas it is
\* cut from, and the extracted window is exactly crop_size x crop_size.
C2_CandidateInsideCanvas ==
    (tool \in {"allinone", "crop", "crop_good"} /\ HasAttempt) =>
        LET W == CropSource.original.w
            H == CropSource.original.h
        IN  /\ crop_size <= Min(H, W)
            /\ 0 <= attempt.start_x
            /\ attempt.start_x + crop_size <= W
            /\ 0 <= attempt.start_y
            /\ attempt.start_y + crop_size <= H
            /\ attempt.cropped_original.h = crop_size
            /\ attempt.cropped_original.w = crop_size
            /\ tool # "crop_good" =>
                  /\ attempt.cropped_mask.h = crop_size
                  /\ attempt.cropped_mask.w = crop_size

\* A window that ends on the right and bottom edges of a larger canvas.
C2_Witness ==
    /\ HasAttempt
    /\ attempt.start_x > 0
    /\ attempt.start_y > 0
    /\ attempt.start_x + crop_size = CropSource.original.w
    /\ attempt.start_y + crop_size = CropSource.original.h

\* The mask of the current pair with the channel order of the file on disk.
MaskOnDisk == IF tool = "expand" THEN CvtColor(mask_image) ELSE mask_image

\* Pixel by pixel, m shows the mask src at the source coordinate the original
\* o shows, and padding where o shows padding.
Aligned(o, m, src) ==
    /\ o.h = m.h
    /\ o.w = m.w
    /\ \A p \in DOMAIN o.px :
          IF o.px[p] = Gray
          THEN m.px[p] = Gray
          ELSE m.px[p] = src.px[<<o.px[p][1] - 1, o.px[p][2] - 1>>]

\* C3: original and mask stay aligned: in every expanded pair, in every
\* candidate and in every written pair of files, pixel (i, j) of the mask
\* comes from the source coordinate of pixel (i, j) of the original, or both
\* are padding.
C3_OriginalAndMaskAligned ==
    /\ (tool \in {"allinone", "expand", "crop"} /\ Len(writes) = 2) =>
          Aligned(writes[1].image, writes[2].image, MaskOnDisk)
    /\ (tool = "allinone" /\ expanded_original # NoImage) =>
          Aligned(expanded_original, expanded_mask, mask_image)
    /\ (tool \in {"allinone", "crop"} /\ HasAttempt) =>
          Aligned(attempt.cropped_original, attempt.cropped_mask, mask_image)

\* A saved crop of a shifted expansion that shows padding and content.
C3_Witness ==
    /\ tool = "allinone"
    /\ log = "saved"
    /\ Len(writes) = 2
    /\ padding.top > 0
    /\ attempt.start_x > 0
    /\ \E p \in DOMAIN writes[1].image.px : writes[1].image.px[p] = Gray
    /\ \E p \in DOMAIN writes[1].image.px : writes[1].image.px[p] # Gray

\* e is src pasted at (top, left) on a gray canvas.
BlockOnGray(e, src, top, left) ==
    \A p \in DOMAIN e.px :
        IF /\ top <= p[1] /\ p[1] < top + src.h
           /\ left <= p[2] /\ p[2] < left + src.w
        THEN e.px[p] = src.px[<<p[1] - top, p[2] - left>>]
        ELSE e.px[p] = Gray

\* C4: for a pair with h # w whose shorter axis is below the target size L,
\* expand_image and process_image_pair give a canvas whose shorter axis is
\* exactly L, with lead in 0..(L - dim) and trail = (L - dim) - lead >= 0;
\* the content is the block at the lead offset and the rest is gray.
C4_ShorterAxisPaddedToTarget ==
    LET h == original_image.h
        w == original_image.w
        L == expansion_target_size
        dim == Min(h, w)
        lead == IF h < w THEN padding.top ELSE padding.left
        total == IF h < w THEN padding.h ELSE padding.w
        axis == IF h < w THEN expanded_original.h ELSE expanded_original.w
    IN  (/\ tool \in {"allinone", "expand"}
         /\ expanded_original # NoImage
         /\ h # w
         /\ dim < L) =>
            /\ axis = L
            /\ lead \in 0..(L - dim)
            /\ total = L - dim
            /\ total - lead >= 0
            /\ expanded_mask.h = expanded_original.h
            /\ expanded_mask.w = expanded_original.w
            /\ BlockOnGray(expanded_original, original_image,
                           padding.top, padding.left)
            /\ BlockOnGray(expanded_mask, mask_image, padding.top, padding.left)

\* expand_image padded above and below a landscape pair.
C4_Witness ==
    /\ tool = "expand"
    /\ log = "expanded"
    /\ original_image.h < original_image.w
    /\ original_image.h < expansion_target_size
    /\ padding.top > 0
    /\ padding.top < padding.h

\* A state from which the next step of the run expands the current pair.
AtExpansion == pc \in {"aug", "expand"} /\ i < num_augmentations

\* C5: when the target size is smaller than both dimensions, every Expander
\* variant passes the pair through unchanged, without padding and without
\* raising an error.
C5_NoPaddingWhenTargetSmaller ==
    [][(/\ AtExpansion
        /\ original_image.h > expansion_target_size
        /\ original_image.w > expansion_target_size) =>
           /\ log' # "error_value"
           /\ padding' = NoPadding
           /\ expanded_original' = original_image
           /\ expanded_mask' = mask_image]_vars

\* C6 as stated: for every square input the expansion of expand_image and of
\* process_image_pair is a no-op.
C6_SquareIsNoOp ==
    (/\ tool \in {"allinone", "expand"}
     /\ expanded_original # NoImage
     /\ original_image.h = original_image.w) =>
        /\ expanded_original = original_image
        /\ expanded_mask = mask_image

\* C6 amended: for a square input expand_image is a no-op whatever the target
\* size; process_image_pair is a no-op when the side is at least the target
\* size L and otherwise pads both axes to L, the content being the block at
\* the drawn offsets of an L x L gray canvas.
C6_SquareNoOpUnlessBelowTarget ==
    LET h == original_image.h
        L == expansion_target_size
    IN  (/\ tool \in {"allinone", "expand"}
         /\ expanded_original # NoImage
         /\ h = original_image.w) =>
            IF tool = "expand" \/ h >= L
            THEN /\ expanded_original = original_image
                 /\ expanded_mask = mask_image
                 /\ padding = NoPadding
            ELSE /\ expanded_original.h = L
                 /\ expanded_original.w = L
                 /\ padding.h = L - h
                 /\ padding.w = L - h
                 /\ padding.top \in 0..(L - h)
                 /\ padding.left \in 0..(L - h)
                 /\ BlockOnGray(expanded_original, original_image,
                                padding.top, padding.left)
                 /\ BlockOnGray(expanded_mask, mask_image,
                                padding.top, padding.left)

\* process_image_pair padded a square pair below the target size.
C6_Witness ==
    /\ tool = "allinone"
    /\ log = "expanded"
    /\ original_image.h = original_image.w
    /\ original_image.h < expansion_target_size
    /\ padding.top > 0
    /\ padding.left > 0

\* C7 as stated: only the shorter axis is padded, the other one keeps its
\* length, in expand_image and in process_image_pair.
C7_OnlyShorterAxisPadded ==
    LET h == original_image.h
        w == original_image.w
        L == expansion_target_size
    IN  (tool \in {"allinone", "expand"} /\ expanded_original # NoImage) =>
            /\ h < w => /\ expanded_original.h = h + Max(0, L - h)
                        /\ expanded_original.w = w
            /\ w < h => /\ expanded_original.w = w + Max(0, L - w)
                        /\ expanded_original.h = h

\* C7 amended: process_image_pair pads each axis on its own, to
\* h + max(0, L - h) by w + max(0, L - w), so the longer axis keeps its length
\* only when it is at least L. expand_image pads the shorter axis alone: for
\* h < w the canvas is L by w when h <= L (h by L for w < h <= L), and when
\* the shorter axis exceeds L the draw raises, the pair is reported and
\* nothing is written.
C7_AxesPaddedPerTool ==
    [][(AtExpansion /\ tool \in {"allinone", "expand"}) =>
         LET h == original_image.h
             w == original_image.w
             L == expansion_target_size
         IN  IF tool = "allinone"
             THEN /\ expanded_original'.h = h + Max(0, L - h)
                  /\ expanded_original'.w = w + Max(0, L - w)
             ELSE IF (h < w /\ h > L) \/ (w < h /\ w > L)
             THEN /\ log' = "error_value"
                  /\ writes' = <<>>
                  /\ UNCHANGED <<out_original_dir, out_mask_dir>>
             ELSE /\ expanded_original'.h = (IF h < w THEN L ELSE h)
                  /\ expanded_original'.w = (IF w < h THEN L ELSE w)]_vars

\* process_image_pair padded both axes of a landscape pair below the target.
C7_Witness ==
    /\ tool = "allinone"
    /\ log = "expanded"
    /\ original_image.h < original_image.w
    /\ original_image.w < expansion_target_size
    /\ expanded_original.w = expansion_target_size
    /\ expanded_original.h = expansion_target_size

\* C8: the defect ratio of a candidate is the number of white mask-crop
\* pixels over crop_size^2; it lies in [0, 1], is 1 when every pixel of the
\* mask crop is white and 0 when none is.
C8_DefectRatioRange ==
    (tool \in {"allinone", "crop"} /\ HasAttempt /\ crop_size >= 1) =>
        LET dp == attempt.defect_percentage
            m == attempt.cropped_mask
            white == {p \in DOMAIN m.px : m.px[p] = <<255, 255, 255>>}
        IN  /\ dp[2] = crop_size * crop_size
            /\ dp[1] = Cardinality(white)
            /\ 0 <= dp[1]
            /\ dp[1] <= dp[2]
            /\ white = DOMAIN m.px => dp[1] = dp[2]
            /\ white = {} => dp[1] = 0

\* A 2 x 2 candidate whose mask crop is entirely white.
C8_Witness ==
    /\ tool \in {"allinone", "crop"}
    /\ HasAttempt
    /\ crop_size = 2
    /\ attempt.defect_percentage = <<4, 4>>

\* C9: for one candidate, acceptance under a threshold t2 implies acceptance
\* under every threshold t1 <= t2, and the run saves the candidate exactly
\* when it is accepted under the configured threshold; the accepted set of a
\* fixed sequence of candidates can only shrink when the threshold is raised.
C9_AcceptanceMonotonic ==
    (tool \in {"allinone", "crop"} /\ HasAttempt) =>
        /\ \A t1, t2 \in Thresholds :
              (t1 <= t2 /\ attempt.accept_under[t2]) => attempt.accept_under[t1]
        /\ log \in {"saved", "rejected"} =>
              (log = "saved" <=> attempt.accept_under[defect_threshold])

\* A saved candidate that the highest threshold would have rejected.
C9_Witness ==
    /\ tool \in {"allinone", "crop"}
    /\ log = "saved"
    /\ attempt.accept_under[defect_threshold]
    /\ ~attempt.accept_under[ThresholdDen]

\* The numbers used by the names of a directory.
Ids(dir) == {f.num : f \in DOMAIN dir}

\* C10: in a batch_process_directory run processed_image_count grows by one
\* on each accepted crop and is unchanged by every other step; the n-th
\* accepted crop is written as {n}{ext} and {n}_mask{ext}; the ids in both
\* output roots are 1..N without gap or repeat, and the ids of an earlier
\* pair are smaller than those of a later pair.
C10_GlobalCounterIds ==
    [][tool = "allinone" =>
         LET accepted == /\ AttemptStep
                         /\ attempt'.defect_pixels_count * ThresholdDen
                                >= defect_threshold * attempt'.total_pixels
             n == processed_image_count'
         IN  /\ n = processed_image_count + (IF accepted THEN 1 ELSE 0)
             /\ accepted =>
                   /\ ext = (IF CurrentFile.ext \in SupportedExts
                             THEN CurrentFile.ext ELSE ".png")
                   /\ writes'[1].path = FileName("", "", n, "", ext)
                   /\ writes'[2].path = FileName("", "", n, "_mask", ext)
                   /\ out_original_dir'[writes'[1].path] = idx + 1
                   /\ out_mask_dir'[writes'[2].path] = idx + 1
             /\ Ids(out_original_dir') = 1..n
             /\ Ids(out_mask_dir') = 1..n
             /\ Cardinality(DOMAIN out_original_dir') = n
             /\ Cardinality(DOMAIN out_mask_dir') = n
             /\ \A f \in DOMAIN out_original_dir' : f.suffix = ""
             /\ \A f \in DOMAIN out_mask_dir' : f.suffix = "_mask"
             /\ \A f, g \in DOMAIN out_original_dir' :
                   out_original_dir'[f] < out_original_dir'[g] => f.num < g.num
             /\ \A f, g \in DOMAIN out_mask_dir' :
                   out_mask_dir'[f] < out_mask_dir'[g] => f.num < g.num]_vars

\* Two pairs of a run have both produced accepted crops.
C10_Witness ==
    /\ tool = "allinone"
    /\ processed_image_count >= 3
    /\ \E f, g \in DOMAIN out_original_dir :
          out_original_dir[f] = 1 /\ out_original_dir[g] = 2 /\ f.ext # g.ext

\* The names an output root holds for the listing entry src.
NamesOf(dir, src) == {f \in DOMAIN dir : dir[f] = src}

\* C11: in crop_image the k-th accepted crop of a source is written as
\* {base_name}_cropped_{k}{ext} and {base_name}_cropped_{k}_mask{ext}; k
\* counts the accepted crops only, so after m acceptances the names of the
\* source carry exactly k = 1..m, whatever rejections lie in between.
C11_PerSourceSequentialNames ==
    [][(tool = "crop" /\ AttemptStep) =>
         LET accepted == attempt'.defect_pixels_count * ThresholdDen
                             >= defect_threshold * attempt'.total_pixels
             k == valid_crop_counter'
             e == IF ext \in SupportedExts THEN ext ELSE ".png"
             originals == NamesOf(out_original_dir', idx + 1)
             masks == NamesOf(out_mask_dir', idx + 1)
         IN  /\ k = valid_crop_counter + (IF accepted THEN 1 ELSE 0)
             /\ accepted =>
                   /\ writes'[1].path =
                          FileName(CurrentFile.name, "_cropped_", k, "", e)
                   /\ writes'[2].path =
                          FileName(CurrentFile.name, "_cropped_", k, "_mask", e)
             /\ {f.num : f \in originals} = 1..k
             /\ {f.num : f \in masks} = 1..k
             /\ Cardinality(originals) = k
             /\ Cardinality(masks) = k
             /\ \A f \in originals \cup masks :
                   /\ f.base = CurrentFile.name
                   /\ f.tag = "_cropped_"
                   /\ f.ext = e]_vars

\* The second attempt on a source is its first accepted crop.
C11_Witness ==
    /\ tool = "crop"
    /\ log = "saved"
    /\ j = 2
    /\ valid_crop_counter = 1
    /\ writes[1].path.num = 1

\* C12: an unreadable original or mask, or a pair of different shapes, is a
\* failure of that pair alone in batch_process_directory, batch_crop_images
\* and batch_expand_images: it is reported, writes no file, leaves the output
\* roots and the counters as they were, and the run goes on with the next
\* entry; the run ends only when the listing is exhausted.
C12_FailureIsPerPair ==
    [][(tool \in {"allinone", "crop", "expand"}) =>
         /\ log' \in {"error_read", "error_shape"} =>
               /\ pc = "batch"
               /\ idx < Len(original_files)
               /\ idx' = idx + 1
               /\ pc' = "batch"
               /\ writes' = <<>>
               /\ UNCHANGED <<out_original_dir, out_mask_dir,
                              processed_image_count, valid_crop_counter>>
         /\ (log \in {"error_read", "error_shape"}
                /\ idx < Len(original_files)) =>
               /\ pc' # "done"
               /\ idx' \in {idx, idx + 1}
         /\ pc' = "done" => idx = Len(original_files)]_vars

\* The second pair fails after the first one has written crops.
C12_Witness ==
    /\ tool = "allinone"
    /\ log = "error_shape"
    /\ idx = 2
    /\ processed_image_count > 0
    /\ out_original_dir # EmptyDir

C20_FixedNumberOfAttempts ==
    [][(tool \in {"allinone", "crop"}) =>
         LET most == IF tool = "allinone"
                     THEN num_augmentations * num_crops
                     ELSE num_crops
         IN  /\ (pc = "crop" /\ j < num_crops) =>
                   /\ j' = j + 1
                   /\ pc' = "crop"
                   /\ attempt' \in Candidates(CropSource.original,
                                             CropSource.mask, crop_size)
                   /\ UNCHANGED <<expanded_original, expanded_mask,
                                  original_image, mask_image, crop_size>>
             /\ (pc = "crop" /\ pc' # "crop") => j = num_crops
             /\ j' \in 0..num_crops
             /\ \A src \in 1..Len(original_files) :
                   /\ Cardinality(NamesOf(out_original_dir', src)) <= most
                   /\ Cardinality(NamesOf(out_mask_dir', src)) <= most]_vars

\* Every attempt of every augmentation of a pair was accepted, all on the
\* only window a canvas of the size of the crop has.
C20_Witness ==
    /\ tool = "allinone"
    /\ num_augmentations = 2
    /\ i = 1
    /\ j = num_crops
    /\ crop_size = 2
    /\ expanded_original.h = crop_size
    /\ expanded_original.w = crop_size
    /\ attempt.start_x = 0
    /\ attempt.start_y = 0
    /\ Cardinality(NamesOf(out_original_dir, 1)) = num_augmentations * num_crops

\* C14: in process_defect_masks, when the label grid of a file set has no
\* pixel equal to (defect_id, defect_id, defect_id), extract_defect_mask
\* returns None: no mask is written, the original is not copied, the file set
\* is counted as skipped and the loop goes on with the next file set.
C14_NoDefectPairSkipped ==
    [][(/\ tool = "mask_and_label" /\ pc = "batch"
        /\ idx < Len(matching_files)
        /\ label_img' # NoImage
        /\ \A p \in DOMAIN label_img'.px :
              label_img'.px[p] # <<defect_id, defect_id, defect_id>>) =>
           /\ processed_mask' = NoImage
           /\ gray_white_mask' = NoImage
           /\ skipped_count' = skipped_count + 1
           /\ idx' = idx + 1
           /\ pc' = "batch"
           /\ UNCHANGED <<output_dir, output_original_image_dir,
                          processed_count, error_count,
                          copied_originals_count,
                          original_not_found_count>>]_vars

\* The second file set is skipped for a label that carries the id on two
\* channels only, after the first one gave a mask and a copied original.
C14_Witness ==
    /\ tool = "mask_and_label"
    /\ log = "skipped"
    /\ idx = 2
    /\ defect_id = 3
    /\ mask_img # NoImage
    /\ label_img.h = mask_img.h
    /\ label_img.w = mask_img.w
    /\ \E p \in DOMAIN label_img.px : label_img.px[p] = <<3, 3, 0>>
    /\ skipped_count = 1
    /\ processed_count = 1
    /\ copied_originals_count = 1

\* C15: for a label grid and a mask grid of one shape with at least one
\* label pixel equal to the id, the emitted mask (extract_defect_mask, then
\* convert_to_gray_white) shows at each pixel the mask pixel where the label
\* equals the id on all channels and the mask pixel is not (0, 0, 0), and
\* gray (127, 127, 127) elsewhere; it holds no pure-black pixel.
C15_EmittedMaskPixelwise ==
    LET target == <<defect_id, defect_id, defect_id>>
        same_shape == /\ label_img # NoImage /\ mask_img # NoImage
                      /\ label_img.h = mask_img.h
                      /\ label_img.w = mask_img.w
    IN  tool = "mask_and_label" =>
          /\ (same_shape /\ \E p \in DOMAIN label_img.px :
                                label_img.px[p] = target)
                => gray_white_mask # NoImage
          /\ gray_white_mask # NoImage =>
                /\ same_shape
                /\ gray_white_mask.h = mask_img.h
                /\ gray_white_mask.w = mask_img.w
                /\ DOMAIN gray_white_mask.px = DOMAIN mask_img.px
                /\ \A p \in DOMAIN gray_white_mask.px :
                      /\ gray_white_mask.px[p] =
                            (IF /\ label_img.px[p] = target
                                /\ mask_img.px[p] # <<0, 0, 0>>
                             THEN mask_img.px[p]
                             ELSE <<127, 127, 127>>)
                      /\ gray_white_mask.px[p] # <<0, 0, 0>>

\* Under the id the mask holds a black and a nearly black pixel: the first
\* one is emitted gray, the second one as it is.
C15_Witness ==
    /\ tool = "mask_and_label"
    /\ gray_white_mask # NoImage
    /\ \E p, q \in DOMAIN gray_white_mask.px :
          /\ label_img.px[p] = <<defect_id, defect_id, defect_id>>
          /\ mask_img.px[p] = <<0, 0, 0>>
          /\ gray_white_mask.px[p] = <<127, 127, 127>>
          /\ label_img.px[q] = <<defect_id, defect_id, defect_id>>
          /\ mask_img.px[q] = <<0, 0, 1>>
          /\ gray_white_mask.px[q] = <<0, 0, 1>>

\* C16 as stated: the set of pairs a run of batch_process_directory or
\* batch_crop_images processes is a function of the directory as it was at
\* the start: a file added or removed during the run changes nothing.
C16_ProcessedSetFromInitialState ==
    pc = "done" =>
        processed = {k \in 1..Len(original_files) :
                        MaskFileOf(tool, original_files[k]) \in initial_dir}

\* C16 amended: the run iterates over the listing of originals taken at its
\* start, in order and without re-reading it, so an original added later is
\* never handled. Whether a listed entry is processed is decided when it is
\* reached: it is processed exactly when its mask and the original exist at
\* that moment; a missing mask gives a warning and a missing original an
\* error, and both leave the entry unprocessed.
C16_ListingFixedOutcomeAtReach ==
    [][/\ original_files' = original_files
       /\ original_files = ListDir(initial_dir)
       /\ initial_dir' = initial_dir
       /\ idx' \in {idx, idx + 1}
       /\ processed' \subseteq 1..idx'
       /\ idx' = idx + 1 =>
             LET f == original_files[idx + 1]
                 m == MaskFileOf(tool, f)
             IN  /\ f \in initial_dir
                 /\ input_dir' = input_dir
                 /\ mask_file' = m
                 /\ processed' =
                       (IF m \in input_dir /\ f \in input_dir
                        THEN processed \cup {idx + 1}
                        ELSE processed)
                 /\ m \notin input_dir => log' = "warn_no_mask"
                 /\ (m \in input_dir /\ f \notin input_dir) =>
                       log' = "error_read"
       /\ idx' = idx => processed' = processed]_vars

\* At the end of a run the directory holds an original with its mask that
\* was added during the run and not processed, and a listed original was.
C16_Witness ==
    /\ pc = "done"
    /\ processed # {}
    /\ \E f \in input_dir \ initial_dir :
          /\ f.suffix = ""
          /\ MaskFileOf(tool, f) \in input_dir
          /\ \A k \in 1..Len(original_files) : original_files[k] # f

\* C19: for every original {stem}{ext} of the listing of batch_crop_images
\* the mask looked up is exactly {stem}_mask{ext}, whatever the stem; in
\* particular an original {base}_expanded_{i}{ext} is paired with
\* {base}_expanded_{i}_mask{ext}.
C19_MaskNameIsStemMask ==
    (tool = "crop" /\ idx >= 1) =>
        mask_file = [stem |-> original_files[idx].stem,
                     suffix |-> "_mask",
                     ext |-> original_files[idx].ext]

\* C17: when the write of an accepted crop fails, the failure is surfaced
\* for that file and the run goes on; process_image_pair and crop_image
\* report a crop as saved only if its original file and its mask file were
\* both written.
C17_SavedOnlyIfWritten ==
    (tool \in {"allinone", "crop"} /\ log = "saved") =>
        /\ Len(writes) = 2
        /\ writes[1].path \in DOMAIN out_original_dir
        /\ writes[2].path \in DOMAIN out_mask_dir

\* C18: a run of process_allinone.py given an invalid configuration value
\* (a size <= 0, a negative count, a threshold outside [0, 1]) stops before
\* it reads an input file and before it writes an output file.
C18_InvalidConfigFailsFast ==
    (/\ tool = "allinone"
     /\ Invalid([expansion_target_size |-> expansion_target_size,
                 crop_size |-> crop_size,
                 num_augmentations |-> num_augmentations,
                 num_crops |-> num_crops,
                 defect_threshold |-> defect_threshold])) =>
        /\ original_image = NoImage
        /\ mask_image = NoImage
        /\ out_original_dir = EmptyDir
        /\ out_mask_dir = EmptyDir

\* C24: process_image_pair never counts a padding pixel as a defect. The
\* defect-pixel count of every crop attempt is at most the number of its
\* pixels inside the pasted original region of the expanded mask; a crop
\* wholly in the gray padding counts 0 defect pixels and, under a threshold
\* above 0, is not saved.
C24_PaddingNeverDefect ==
    (tool = "allinone" /\ pc = "crop" /\ attempt # NoAttempt) =>
        LET inside ==
                {rc \in Pixels(crop_size, crop_size) :
                    /\ padding.top <= attempt.start_y + rc[1]
                    /\ attempt.start_y + rc[1] < padding.top + original_image.h
                    /\ padding.left <= attempt.start_x + rc[2]
                    /\ attempt.start_x + rc[2]
                          < padding.left + original_image.w}
        IN  /\ attempt.defect_pixels_count <= Cardinality(inside)
            /\ inside = {} =>
                  /\ attempt.defect_pixels_count = 0
                  /\ attempt.defect_percentage[1] = 0
                  /\ defect_threshold > 0 => (log = "rejected" /\ writes = <<>>)

\* A crop attempt that lies wholly in the padding of a padded canvas was
\* rejected under a positive threshold.
C24_Witness ==
    /\ tool = "allinone" /\ pc = "crop" /\ attempt # NoAttempt
    /\ padding.h + padding.w > 0
    /\ defect_threshold > 0
    /\ log = "rejected"
    /\ \A rc \in Pixels(crop_size, crop_size) :
          \/ attempt.start_y + rc[1] < padding.top
          \/ attempt.start_y + rc[1] >= padding.top + original_image.h
          \/ attempt.start_x + rc[2] < padding.left
          \/ attempt.start_x + rc[2] >= padding.left + original_image.w

\* C25: in crop_image and crop_image_fast, for every image size and every
\* crop_size_ratio above 0, the clamped crop_size is at most the shorter
\* side, so max_x >= 0 and max_y >= 0, the break is never taken, and the
\* loop of an image ends only after all num_crops iterations drew a candidate.
C25_ClampKeepsEveryIteration ==
    [][(tool \in {"crop", "crop_good"} /\ pc = "crop") =>
          /\ crop_size <= Min(original_image.w, original_image.h)
          /\ original_image.w - crop_size >= 0
          /\ original_image.h - crop_size >= 0
          /\ ~CropBreaks(original_image, crop_size)
          /\ pc' = "batch" => j = num_crops]_vars

\* C26: within one batch_crop_images run no accepted crop is written to a
\* path an earlier accepted crop of the run was written to, whatever the
\* stems and extensions of the distinct source names are.
C26_NoCropOverwritten ==
    [][(tool = "crop" /\ valid_crop_counter' = valid_crop_counter + 1) =>
          /\ writes'[1].path \notin DOMAIN out_original_dir
          /\ writes'[2].path \notin DOMAIN out_mask_dir]_vars

\* C27: at the end of process_defect_masks, for every matched pair the
\* original is in the originals output directory if and only if the
\* processed mask of the pair is in the mask output directory.
C27_OutputDirsConsistent ==
    (tool = "mask_and_label" /\ pc = "done") =>
        \A k \in DOMAIN matching_files :
            LET fs == matching_files[k]
            IN  FileName(fs.name, "", 0, "", fs.ext)
                    \in DOMAIN output_original_image_dir
                <=> FileName(fs.name, "", 0, "_mask", fs.ext)
                        \in DOMAIN output_dir

\* The names of the regular files the source directory held at the start.
InitialNames == {files_to_process[k] : k \in DOMAIN files_to_process}

\* C22: for each of the five batch operations of rename.py, when the output
\* directory is not the source directory every source file stays in place
\* with its name and content and each output file is a copy of a source file;
\* the source directory changes only when the two resolved paths are equal.
C22_CopyLeavesSourceInPlace ==
    [][(tool = "rename") =>
          /\ ~in_place =>
                /\ source_directory = DirectoryOf(InitialNames)
                /\ source_directory' = source_directory
                /\ \A n \in DOMAIN output_directory' :
                      output_directory'[n] \in DOMAIN source_directory'
          /\ source_directory' # source_directory => in_place]_vars

\* A run into another directory has ended with at least two copies made.
C22_Witness ==
    /\ tool = "rename" /\ ~in_place /\ pc = "done"
    /\ Cardinality(DOMAIN output_directory) >= 2
    /\ source_directory = DirectoryOf(InitialNames)

\* C23: batch_replace_file_extensions called with old_extension = '' gives a
\* file whose name holds no '.' the new name filename + new_extension, and
\* passes over a file whose name holds a '.', which is neither renamed nor
\* copied.
C23_EmptyOldExtension ==
    [][(/\ tool = "rename" /\ user_choice = "extension"
        /\ args.old_extension = <<>>
        /\ pc = "loop" /\ idx' = idx + 1) =>
          IF HasDot(filename)
          THEN /\ source_directory' = source_directory
               /\ output_directory' = output_directory
          ELSE LET new_filename_only == filename \o args.new_extension
                   target == IF in_place THEN source_directory'
                             ELSE output_directory'
               IN  /\ new_filename_only \in DOMAIN target
                   /\ target[new_filename_only] = source_directory[filename]
       ]_vars

\* C21: the in-place sequential rename avoids conflicts through its two
\* phases. For every initial set of names, no step of phase 1 or phase 2
\* overwrites a file (the directory keeps its n files), and after the run the
\* content of the i-th file in the order of the original names is at
\* {i}{ext_i}.
C21_TwoPhaseRenameLosesNothing ==
    [][(tool = "rename" /\ user_choice = "sequential" /\ in_place) =>
          /\ Cardinality(DOMAIN source_directory')
                = Cardinality(DOMAIN source_directory)
          /\ pc' = "done" =>
                /\ Cardinality(DOMAIN source_directory')
                      = Cardinality(InitialNames)
                /\ \A k \in DOMAIN files_to_process :
                      LET original_filename == SortNames(InitialNames)[k]
                          final_filename_only ==
                              <<Numerals[k]>>
                                  \o Splitext(original_filename).extension
                      IN  /\ final_filename_only \in DOMAIN source_directory'
                          /\ source_directory'[final_filename_only]
                                = original_filename]_vars

\* C28: in-place prefix addition and suffix addition rename every regular
\* file of the initial listing and lose none. For every initial set of names
\* and every listing order, the directory holds as many files after the run
\* as before and the content of each initial file is at prefix + filename,
\* respectively base + suffix + extension.
C28_InPlaceAffixLosesNothing ==
    (/\ tool = "rename" /\ user_choice \in {"prefix", "suffix"}
     /\ in_place /\ pc = "done") =>
        /\ Cardinality(DOMAIN source_directory) = Cardinality(InitialNames)
        /\ \A original_filename \in InitialNames :
              LET new_filename_only ==
                      IF user_choice = "prefix"
                      THEN args.prefix \o original_filename
                      ELSE Splitext(original_filename).base_name
                               \o args.suffix
                               \o Splitext(original_filename).extension
              IN  /\ new_filename_only \in DOMAIN source_directory
                  /\ source_directory[new_filename_only] = original_filename

====
